---- MODULE Spec2Model ----
(***************************************************************************)
(* Job lifecycle of the video QA backend.                                  *)
(*                                                                         *)
(* Two deployments share one orchestrator:                                 *)
(*   "redis"  : app.py / app_free.py + analysis_tasks.py.  The task is     *)
(*              queued on Celery, statuses and results are Redis keys      *)
(*              written with SETEX (one hour to live).                     *)
(*   "memory" : app_simple.py.  The task runs in a daemon thread, statuses *)
(*              and results live in two module-level dicts.                *)
(* A third one, "inline" (test_simple.py), analyses the upload inside the  *)
(* request with an analyzer of its own; it appears in RunSpec only.        *)
(*                                                                         *)
(* The task body is split at every store operation, because status and     *)
(* result queries run concurrently with it.  A stage call and the          *)
(* checkpoint write that follows it form one step: nothing a reader can    *)
(* see changes in between.                                                 *)
(*                                                                         *)
(* The analyzers' functions (timestamp conversion, audio detectors, frame  *)
(* loops, summary) are also evaluated on their own, on bounded inputs:     *)
(* TimestampSpec, AudioSpec, VideoSpec, SummarySpec.  There the variable   *)
(* calc holds one call, its argument and, once made, its return value.     *)
(***************************************************************************)
EXTENDS Integers, Sequences, FiniteSets, TLC

VARIABLES
    backend,      \* which deployment is running
    pc,           \* per job id: position of create_job / the analysis task
    job_status,   \* status store: job id -> status dict (domain = keys present)
    job_storage,  \* result store: job id -> result (domain = keys present)
    uploads,      \* job ids whose uploaded source file exists on disk
    error_msg,    \* per job id: str(e) captured by the except clause
    log,          \* per job id: history of stage calls and store writes
    runs,         \* per job id: how many times the task body was entered
    submits,      \* number of create_job calls that returned 201
    elapsed,      \* number of clock advances so far
    watched,      \* the job id the client polls
    lastStatus,   \* last response of GET /status for the watched id
    hi,           \* highest progress in the responses before lastStatus
    termSeen,     \* first terminal state a response carried, "" if none
    lastResult,   \* what the client last got from GET /result for the
                  \* watched id; "absent" as long as it has not asked
    media,        \* per job id: the uploaded file, as the analyzer sees it
    audio_issues, \* per job id: what the audio stage returned
    video_issues, \* per job id: what the video stage returned
    stream,       \* the generator behind GET /stream for the watched id
    calc          \* a call of one of the analyzer's functions on its own:
                  \* its argument and, once it has returned, its value

vars == <<backend, pc, job_status, job_storage, uploads, error_msg, log, runs,
          submits, elapsed, watched, lastStatus, hi, termSeen, lastResult,
          media, calc, audio_issues, video_issues, stream>>

jobVars == <<pc, job_status, job_storage, uploads, error_msg, log, runs, submits,
             media, calc, audio_issues, video_issues>>
readerVars == <<lastStatus, hi, termSeen, lastResult, stream>>

----------------------------------------------------------------------------
(* Bounds *)

MaxTicks == 2

\* Identifiers uuid4 can return.
JobIds == {"job-a", "job-b"}

(* Program constants *)

TTL == 3600

Backends == {"redis", "memory"}

\* Elapsed wall-clock seconds between two steps: a moment, just under the
\* retention window, or the whole window.
Delays == {1, TTL - 1, TTL}

----------------------------------------------------------------------------
(* Request validation *)

ALLOWED_EXTENSIONS == {"mp4", "mov", "mkv", "avi", "wmv", "flv", "webm", "m4v"}

\* An upload request: whether the form has a 'video' part, and the file name
\* split at its last dot (dot = FALSE: the name has no dot).
Requests ==
    { [has_video |-> TRUE,  stem |-> "clip",  dot |-> TRUE,  ext |-> "mp4"],
      [has_video |-> TRUE,  stem |-> "notes", dot |-> TRUE,  ext |-> "txt"],
      [has_video |-> TRUE,  stem |-> "clip",  dot |-> FALSE, ext |-> ""],
      [has_video |-> TRUE,  stem |-> "",      dot |-> FALSE, ext |-> ""],
      [has_video |-> FALSE, stem |-> "",      dot |-> FALSE, ext |-> ""] }

allowed_file(req) == req.dot /\ req.ext \in ALLOWED_EXTENSIONS

\* The three early returns of create_job (400).
Rejected(req) ==
    \/ ~req.has_video
    \/ (req.stem = "" /\ ~req.dot)
    \/ ~allowed_file(req)

----------------------------------------------------------------------------
(* Stores *)

\* Fault: the write replaces the store by one that holds only this key.
Put_replace(store, k, v) == [x \in {k} |-> v]

Put(store, k, v) == [x \in (DOMAIN store) \cup {k} |-> IF x = k THEN v ELSE store[x]]

\* Seconds a key written now has to live; 0 = the key never expires (dict).
Lifetime == IF backend = "redis" THEN TTL ELSE 0

\* Text is a sequence of pieces; <<>> is the empty string.  None is written
\* <<>> as well: the only test made on an error is its truthiness.
Str(piece) == IF piece = "" THEN <<>> ELSE <<piece>>

\* The status dict built by update_job_status.  error = <<>> stands for a
\* dict without an 'error' key ('if error:' drops None and the empty string).
StatusDict(state, progress, stage, error) ==
    [state |-> state, progress |-> progress, stage |-> stage, error |-> error,
     ttl |-> Lifetime]

\* Fault: the terminal DONE write falls back to the default progress=0.
update_job_status_default(store, job_id, state, progress, stage, error) ==
    Put(store, job_id,
        StatusDict(state, IF state = "DONE" THEN 0 ELSE progress, stage, error))

\* Fault: the error text is never put into the dict.
update_job_status_noerror(store, job_id, state, progress, stage, error) ==
    Put(store, job_id, StatusDict(state, progress, stage, <<>>))

update_job_status(store, job_id, state, progress, stage, error) ==
    Put(store, job_id, StatusDict(state, progress, stage, error))

\* The stored result: of the result dict, the two issue lists.
update_job_result(store, job_id) ==
    Put(store, job_id,
        [job_id |-> job_id, audio_issues |-> audio_issues[job_id],
         video_issues |-> video_issues[job_id], ttl |-> Lifetime])

NotFound == [state |-> "NOT_FOUND", progress |-> 0, stage |-> "", error |-> <<>>]

\* Fault: an unknown id is answered with an error status.
get_job_status_conflated(job_id) ==
    IF job_id \in DOMAIN job_status
    THEN [state    |-> job_status[job_id].state,
          progress |-> job_status[job_id].progress,
          stage    |-> job_status[job_id].stage,
          error    |-> job_status[job_id].error]
    ELSE [NotFound EXCEPT !.state = "ERROR"]

get_job_status(job_id) ==
    IF job_id \in DOMAIN job_status
    THEN [state    |-> job_status[job_id].state,
          progress |-> job_status[job_id].progress,
          stage    |-> job_status[job_id].stage,
          error    |-> job_status[job_id].error]
    ELSE NotFound

\* "present": the stored result is returned; "absent": None / 404.
get_job_result(job_id) ==
    IF job_id \in DOMAIN job_storage THEN "present" ELSE "absent"

\* Redis key expiry after d more seconds.
Age(store, d) ==
    LET dead == {k \in DOMAIN store : store[k].ttl > 0 /\ store[k].ttl <= d}
    IN [k \in (DOMAIN store) \ dead |->
            IF store[k].ttl > 0
            THEN [store[k] EXCEPT !.ttl = @ - d]
            ELSE store[k]]

----------------------------------------------------------------------------
(* History *)

Ev(kind, what, progress) == [ev |-> kind, what |-> what, progress |-> progress]

StageEv(name) == Ev("stage", name, 0)
StatusEv(state, progress) == Ev("status", state, progress)
ResultEv == Ev("result", "stored", 0)
RemoveEv == Ev("remove", "source", 0)
RaiseEv(name) == Ev("raise", name, 0)

Logged(j, evs) == log' = [log EXCEPT ![j] = @ \o evs]

NoResponse == [state |-> "", progress |-> 0, stage |-> "", error |-> <<>>]

Max(a, b) == IF a >= b THEN a ELSE b

----------------------------------------------------------------------------
(* The analyzer's stages, as far as the orchestrator depends on them *)

\* An issue dict: its type, its timestamp (whole seconds) and its severity.
Issue(type, timestamp, severity) ==
    [type |-> type, timestamp |-> timestamp, severity |-> severity]

\* Steps of an audio stage that can fail on a given file.
Raisers ==
    {"none", "decode", "loudness", "clipping", "silence", "voice_glitch",
     "volume", "dc_offset", "mono_in_stereo"}

\* An uploaded file, described by what the analyzer meets in it: whether it
\* has an audio stream, the audio step that raises on it ("none": no step
\* does), the audio checks that find something (a clipped run starting at
\* second 2, a long silence starting at second 1), and whether reading its
\* frames fails as a whole.
Medias ==
    { [has_audio |-> FALSE, raises |-> "none", finds |-> {}, video_raises |-> v] :
          v \in BOOLEAN }
    \cup
    { [has_audio |-> TRUE, raises |-> r, finds |-> f, video_raises |-> v] :
          r \in Raisers, f \in SUBSET {"clipping", "silence"}, v \in BOOLEAN }

\* A file on which no step fails and no check finds anything.
PlainClip ==
    [has_audio |-> TRUE, raises |-> "none", finds |-> {}, video_raises |-> FALSE]

\* One step of the try block: its name, whether it swallows its own
\* exceptions (try / except: pass), and the issue it appends if it finds
\* something.
Check(name, guarded, issue) == [name |-> name, guarded |-> guarded, issue |-> issue]

\* VideoAnalyzer.analyze_audio: to_soundarray, then the four checks.
AudioChecks ==
    << Check("decode", FALSE, Issue("", 0, "")),
       Check("loudness", TRUE, Issue("low_loudness", 0, "medium")),
       Check("clipping", FALSE, Issue("clipping", 2, "high")),
       Check("silence", FALSE, Issue("silence", 1, "low")),
       Check("voice_glitch", TRUE, Issue("voice_glitch", 0, "low")) >>

\* analyze_video_simple, audio part: to_soundarray, then five checks in one
\* try block, none of them guarded on its own.
SimpleAudioChecks ==
    << Check("decode", FALSE, Issue("", 0, "")),
       Check("clipping", FALSE, Issue("clipping", 0, "high")),
       Check("volume", FALSE, Issue("low_volume", 0, "medium")),
       Check("dc_offset", FALSE, Issue("dc_offset", 0, "low")),
       Check("mono_in_stereo", FALSE, Issue("mono_in_stereo", 0, "low")),
       Check("silence", FALSE, Issue("silence", 1, "low")) >>

\* The try block run on file m from step i on, with the issues found so far:
\* the issues at the point where the block is left, whether it was left by
\* an exception, and how many steps were entered.
RECURSIVE RunChecks(_, _, _, _)
RunChecks(checks, m, found, i) ==
    IF i > Len(checks)
    THEN [issues |-> found, raised |-> FALSE, entered |-> i - 1]
    ELSE IF m.raises = checks[i].name
         THEN IF checks[i].guarded
              THEN RunChecks(checks, m, found, i + 1)
              ELSE [issues |-> found, raised |-> TRUE, entered |-> i]
         ELSE RunChecks(checks, m,
                        IF checks[i].name \in m.finds
                        THEN Append(found, checks[i].issue)
                        ELSE found,
                        i + 1)

\* sorted(issues, key=timestamp): a stable sort.
RECURSIVE sorted(_)
sorted(s) ==
    IF s = <<>>
    THEN <<>>
    ELSE LET x == s[Len(s)]
             front == sorted(SubSeq(s, 1, Len(s) - 1))
             k == Cardinality({i \in 1..Len(front) : front[i].timestamp <= x.timestamp})
         IN SubSeq(front, 1, k) \o <<x>> \o SubSeq(front, k + 1, Len(front))

\* Fault: an exception of the try block is not caught by the stage.
analyze_audio_unguarded(m) ==
    IF ~m.has_audio
    THEN [issues |-> <<>>, raised |-> FALSE]
    ELSE LET r == RunChecks(AudioChecks, m, <<>>, 1)
         IN [issues |-> sorted(r.issues), raised |-> r.raised]

\* VideoAnalyzer.analyze_audio.  raised: the call ends with an exception.
analyze_audio(m) ==
    IF ~m.has_audio
    THEN [issues |-> <<>>, raised |-> FALSE]
    ELSE LET r == RunChecks(AudioChecks, m, <<>>, 1)
         IN [issues |-> sorted(IF r.raised
                               THEN Append(r.issues,
                                           Issue("audio_analysis_error", 0, "high"))
                               ELSE r.issues),
             raised |-> FALSE]

\* VideoAnalyzer.analyze_video, the frame loop taken as a whole.
analyze_video(m) ==
    [issues |-> IF m.video_raises
                THEN <<Issue("video_analysis_error", 0, "high")>>
                ELSE <<>>,
     raised |-> FALSE]

\* The audio part of analyze_video_simple.
analyze_audio_simple(m) ==
    IF ~m.has_audio
    THEN <<Issue("no_audio", 0, "medium")>>
    ELSE LET r == RunChecks(SimpleAudioChecks, m, <<>>, 1)
         IN IF r.raised
            THEN Append(r.issues, Issue("analysis_error", 0, "low"))
            ELSE r.issues

\* The audio steps a stage enters on file m.
Entered(checks, m) ==
    IF ~m.has_audio THEN 0 ELSE RunChecks(checks, m, <<>>, 1).entered

----------------------------------------------------------------------------
\* No stream has been opened.
StreamClosed ==
    [pc |-> "closed", impl |-> "", iteration |-> 0, emitted |-> 0, last |-> "",
     terminal |-> FALSE, timeout |-> FALSE, inflight |-> FALSE]

\* The state after start-up of one of the deployments, with the files the
\* clients are going to upload.
\* No function is being evaluated on its own.
NoCall == [fn |-> "", arg |-> <<>>, ret |-> <<>>, done |-> FALSE]

\* A call about to be made.
Call(fn, arg) == [fn |-> fn, arg |-> arg, ret |-> <<>>, done |-> FALSE]

Boot(deployments, files, calls) ==
    /\ backend \in deployments
    /\ media \in files
    /\ calc \in calls
    /\ audio_issues = [j \in JobIds |-> <<>>]
    /\ video_issues = [j \in JobIds |-> <<>>]
    /\ stream = StreamClosed
    /\ pc = [j \in JobIds |-> "idle"]
    /\ job_status = <<>>
    /\ job_storage = <<>>
    /\ uploads = {}
    /\ error_msg = [j \in JobIds |-> ""]
    /\ log = [j \in JobIds |-> <<>>]
    /\ runs = [j \in JobIds |-> 0]
    /\ submits = 0
    /\ elapsed = 0
    /\ watched = "job-a"    \* the identifiers are interchangeable
    /\ lastStatus = NoResponse
    /\ hi = 0
    /\ termSeen = ""
    /\ lastResult = "absent"

Init == Boot(Backends, [JobIds -> {PlainClip}], {NoCall})

----------------------------------------------------------------------------
(* POST /api/jobs *)

\* uuid.uuid4(): an identifier no earlier call returned.
\* Fault: identifiers are drawn without regard to the ones already issued.
uuid4_collide == JobIds

uuid4 == {j \in JobIds : pc[j] = "idle"}

\* Validate, draw the id, save the upload, hand the task to Celery
\* (analyze_video.delay) or to a daemon thread (thread.start), answer 201.
create_job ==
    \E req \in Requests, job_id \in uuid4 :
        /\ backend \in Backends
        /\ ~Rejected(req)
        /\ uploads' = uploads \cup {job_id}
        /\ pc' = [pc EXCEPT ![job_id] = "queued"]
        /\ submits' = submits + 1
        /\ UNCHANGED <<backend, job_status, job_storage, error_msg, log, runs,
                       elapsed, watched, readerVars, media, calc, audio_issues,
                       video_issues>>

----------------------------------------------------------------------------
(* analyze_video / analyze_video_sync *)

\* update_job_result serialises the result with json.dumps, which raises on
\* a value it cannot encode; the dict assignment of app_simple cannot raise.
\* The store itself is taken to be reliable.
DumpsCanRaise == backend = "redis"

Goto(j, label) == pc' = [pc EXCEPT ![j] = label]

\* An exception reaches the except clause: str(e) is captured.
Raise(j, pre, what, message) ==
    /\ Goto(j, "except")
    /\ error_msg' = [error_msg EXCEPT ![j] = message]
    /\ Logged(j, pre \o <<RaiseEv(what)>>)

\* update_job_status(job_id, 'RUNNING', progress, stage) inside the try.
Checkpoint(j, pre, progress, stage, to) ==
    /\ job_status' = update_job_status(job_status, j, "RUNNING", progress, stage, <<>>)
    /\ Goto(j, to)
    /\ Logged(j, pre \o <<StatusEv("RUNNING", progress)>>)
    /\ UNCHANGED error_msg

TaskFrame == <<backend, uploads, submits, elapsed, watched, readerVars, media, calc>>

StageFrame == <<TaskFrame, audio_issues, video_issues>>

\* The worker / thread enters the task body: RUNNING 0.
Start(j) ==
    /\ pc[j] = "queued"
    /\ runs' = [runs EXCEPT ![j] = @ + 1]
    /\ Checkpoint(j, <<>>, 0, "Starting analysis...", "construct")
    /\ UNCHANGED <<job_storage, StageFrame>>

\* VideoAnalyzer(file_path) only assigns fields; then RUNNING 10.
Construct(j) ==
    /\ pc[j] = "construct"
    /\ Checkpoint(j, <<StageEv("construct")>>, 10, "Extracting metadata...", "metadata")
    /\ UNCHANGED <<job_storage, runs, StageFrame>>

\* extract_metadata() raises on an unreadable source; then RUNNING 30.
Metadata(j) ==
    /\ pc[j] = "metadata"
    /\ \/ Checkpoint(j, <<StageEv("metadata")>>, 30, "Analyzing audio...", "audio")
       \/ /\ Raise(j, <<StageEv("metadata")>>, "metadata", "Failed to extract metadata")
          /\ UNCHANGED job_status
    /\ UNCHANGED <<job_storage, runs, StageFrame>>

\* Fault: the video checkpoint is written with a progress below the audio one.
Audio_regress(j) ==
    /\ pc[j] = "audio"
    /\ audio_issues' = [audio_issues EXCEPT ![j] = analyze_audio(media[j]).issues]
    /\ Checkpoint(j, <<StageEv("audio")>>, 20, "Analyzing video frames...", "video")
    /\ UNCHANGED <<job_storage, runs, TaskFrame, video_issues>>

\* analyze_audio() catches its own failures and returns; then RUNNING 60.
Audio(j) ==
    /\ pc[j] = "audio"
    /\ LET r == analyze_audio(media[j])
       IN IF r.raised
          THEN /\ Raise(j, <<StageEv("audio")>>, "audio", "Audio analysis failed")
               /\ UNCHANGED <<job_status, audio_issues>>
          ELSE /\ audio_issues' = [audio_issues EXCEPT ![j] = r.issues]
               /\ Checkpoint(j, <<StageEv("audio")>>, 60,
                             "Analyzing video frames...", "video")
    /\ UNCHANGED <<job_storage, runs, TaskFrame, video_issues>>

\* Fault: the video stage is skipped, the job goes straight to the summary.
Video_skipped(j) ==
    /\ pc[j] = "video"
    /\ Checkpoint(j, <<>>, 90, "Compiling report...", "summary")
    /\ UNCHANGED <<job_storage, runs, StageFrame>>

\* analyze_video() catches its own failures and returns; then RUNNING 80.
Video(j) ==
    /\ pc[j] = "video"
    /\ LET r == analyze_video(media[j])
       IN IF r.raised
          THEN /\ Raise(j, <<StageEv("video")>>, "video", "Video analysis failed")
               /\ UNCHANGED <<job_status, video_issues>>
          ELSE /\ video_issues' = [video_issues EXCEPT ![j] = r.issues]
               /\ Checkpoint(j, <<StageEv("video")>>, 80,
                             "Computing metrics...", "metrics")
    /\ UNCHANGED <<job_storage, runs, TaskFrame, audio_issues>>

\* compute_metrics() has unguarded reads (file size, w / h); then RUNNING 90.
Metrics(j) ==
    /\ pc[j] = "metrics"
    /\ \/ Checkpoint(j, <<StageEv("metrics")>>, 90, "Compiling report...", "summary")
       \/ /\ Raise(j, <<StageEv("metrics")>>, "metrics", "No such file or directory")
          /\ UNCHANGED job_status
    /\ UNCHANGED <<job_storage, runs, StageFrame>>

\* The result dict is built (generate_summary) and stored.
StoreResult(j) ==
    /\ pc[j] = "summary"
    /\ \/ /\ job_storage' = update_job_result(job_storage, j)
          /\ Goto(j, "publish")
          /\ Logged(j, <<StageEv("summary"), ResultEv>>)
          /\ UNCHANGED error_msg
       \/ /\ DumpsCanRaise
          /\ Raise(j, <<StageEv("summary")>>, "result", "Object is not JSON serializable")
          /\ UNCHANGED job_storage
    /\ UNCHANGED <<job_status, runs, StageFrame>>

\* update_job_status(job_id, 'DONE', 100, 'Analysis complete')
Publish(j) ==
    /\ pc[j] = "publish"
    /\ job_status' = update_job_status(job_status, j, "DONE", 100, "Analysis complete", <<>>)
    /\ Goto(j, "cleanup")
    /\ Logged(j, <<StatusEv("DONE", 100)>>)
    /\ UNCHANGED error_msg
    /\ UNCHANGED <<job_storage, runs, StageFrame>>

\* os.remove(file_path); OSError is swallowed.
Remove(j, to) ==
    /\ \E removed \in BOOLEAN :
          uploads' = IF removed THEN uploads \ {j} ELSE uploads
    /\ Goto(j, to)
    /\ Logged(j, <<RemoveEv>>)
    /\ UNCHANGED <<backend, job_status, job_storage, error_msg, runs, submits,
                   elapsed, watched, readerVars, media, calc, audio_issues,
                   video_issues>>

\* Fault: the except path ends without touching the source file.
ErrCleanup_skipped(j) ==
    /\ pc[j] = "errcleanup"
    /\ Goto(j, "failed")
    /\ UNCHANGED <<backend, job_status, job_storage, uploads, error_msg, log,
                   runs, submits, elapsed, watched, readerVars, media, calc,
                   audio_issues, video_issues>>

\* Fault: the removal is not guarded, so its failure reaches the except
\* clause of the task.
Cleanup_unguarded(j) ==
    /\ pc[j] = "cleanup"
    /\ \/ Remove(j, "finished")
       \/ /\ Raise(j, <<RemoveEv>>, "remove", "Permission denied")
          /\ UNCHANGED <<backend, job_status, job_storage, uploads, runs, submits,
                         elapsed, watched, readerVars, media, calc, audio_issues,
                         video_issues>>

Cleanup(j) ==
    /\ pc[j] = "cleanup"
    /\ Remove(j, "finished")

\* The error text handed to update_job_status by the except clause:
\* str(e) in app_simple, str(e) + newline + traceback in analysis_tasks.
ErrorText(j) ==
    IF backend = "redis"
    THEN Str(error_msg[j]) \o <<"\n", "Traceback">>
    ELSE Str(error_msg[j])

\* except Exception: update_job_status(job_id, 'ERROR', 0, 'Analysis failed', ...)
Except(j) ==
    /\ pc[j] = "except"
    /\ job_status' = update_job_status(job_status, j, "ERROR", 0, "Analysis failed", ErrorText(j))
    /\ Goto(j, "errcleanup")
    /\ Logged(j, <<StatusEv("ERROR", 0)>>)
    /\ UNCHANGED <<job_storage, error_msg, runs, StageFrame>>

ErrCleanup(j) ==
    /\ pc[j] = "errcleanup"
    /\ Remove(j, "failed")

----------------------------------------------------------------------------
(* test_simple.py: the analysis runs inside the upload request.  The entry *)
(* jobs[job_id] holds status and result together; its status fields are    *)
(* kept in job_status, its 'result' field in job_storage.                  *)

Deployments == Backends \cup {"inline"}

SimpleFrame ==
    <<backend, uploads, error_msg, submits, elapsed, watched, readerVars, media, calc>>

\* analyze_video_simple: frames first, then audio; an exception outside the
\* per-frame and audio try blocks ends in the outer except, which returns a
\* result with empty issue lists.
analyze_video_simple(m) ==
    IF m.video_raises
    THEN [audio_issues |-> <<>>, video_issues |-> <<>>, audio_ran |-> FALSE]
    ELSE [audio_issues |-> analyze_audio_simple(m), video_issues |-> <<>>,
          audio_ran |-> TRUE]

\* create_job up to jobs[job_id] = {..., 'status': 'RUNNING', 'progress': 0}.
create_job_simple ==
    \E req \in Requests, job_id \in uuid4 :
        /\ backend = "inline"
        /\ ~Rejected(req)
        /\ uploads' = uploads \cup {job_id}
        /\ submits' = submits + 1
        /\ runs' = [runs EXCEPT ![job_id] = @ + 1]
        /\ job_status' = update_job_status(job_status, job_id, "RUNNING", 0,
                                           "Starting analysis...", <<>>)
        /\ Goto(job_id, "simple_metadata")
        /\ Logged(job_id, <<StatusEv("RUNNING", 0)>>)
        /\ UNCHANGED <<backend, job_storage, error_msg, elapsed, watched,
                       readerVars, media, calc, audio_issues, video_issues>>

\* jobs[job_id].update({'progress': 20, ...})
SimpleMetadata(j) ==
    /\ pc[j] = "simple_metadata"
    /\ Checkpoint(j, <<>>, 20, "Extracting metadata...", "simple_video")
    /\ UNCHANGED <<job_storage, runs, SimpleFrame, audio_issues, video_issues>>

\* jobs[job_id].update({'progress': 50, ...})
SimpleVideo(j) ==
    /\ pc[j] = "simple_video"
    /\ Checkpoint(j, <<>>, 50, "Analyzing video...", "simple_analysis")
    /\ UNCHANGED <<job_storage, runs, SimpleFrame, audio_issues, video_issues>>

\* analysis_result = analyze_video_simple(file_path), then progress 90.
SimpleAnalysis(j) ==
    /\ pc[j] = "simple_analysis"
    /\ LET r == analyze_video_simple(media[j])
       IN /\ audio_issues' = [audio_issues EXCEPT ![j] = r.audio_issues]
          /\ video_issues' = [video_issues EXCEPT ![j] = r.video_issues]
          /\ Checkpoint(j, <<StageEv("video")>>
                              \o (IF r.audio_ran THEN <<StageEv("audio")>> ELSE <<>>),
                        90, "Compiling report...", "simple_report")
    /\ UNCHANGED <<job_storage, runs, SimpleFrame>>

\* jobs[job_id].update({'status': 'DONE', 'progress': 100, 'result': result});
\* the source file is kept.
SimpleReport(j) ==
    /\ pc[j] = "simple_report"
    /\ job_storage' = update_job_result(job_storage, j)
    /\ job_status' = update_job_status(job_status, j, "DONE", 100,
                                       "Analysis complete", <<>>)
    /\ Goto(j, "finished")
    /\ Logged(j, <<ResultEv, StatusEv("DONE", 100)>>)
    /\ UNCHANGED <<error_msg, runs, SimpleFrame, audio_issues, video_issues>>

----------------------------------------------------------------------------
(* Retention: Redis drops a key when its time to live has run out. *)

Tick ==
    /\ backend = "redis"
    /\ elapsed < MaxTicks
    /\ DOMAIN job_status \cup DOMAIN job_storage # {}
    /\ \E d \in Delays :
          /\ job_status' = Age(job_status, d)
          /\ job_storage' = Age(job_storage, d)
    /\ elapsed' = elapsed + 1
    /\ UNCHANGED <<backend, pc, uploads, error_msg, log, runs, submits,
                   watched, readerVars, media, calc, audio_issues, video_issues>>

----------------------------------------------------------------------------
(* Queries of the client *)

\* GET /api/jobs/<job_id>/status
PollStatus ==
    /\ lastStatus' = get_job_status(watched)
    /\ hi' = Max(hi, lastStatus.progress)
    /\ termSeen' = IF termSeen = "" /\ lastStatus'.state \in {"DONE", "ERROR"}
                   THEN lastStatus'.state ELSE termSeen
    /\ UNCHANGED <<backend, jobVars, elapsed, watched, lastResult, stream>>

\* GET /api/jobs/<job_id>/result
PollResult ==
    /\ lastResult' = get_job_result(watched)
    /\ UNCHANGED <<backend, jobVars, elapsed, watched, lastStatus, hi, termSeen,
                   stream>>

Terminal == {"DONE", "ERROR"}

\* The task of job j has been handed over and has written no terminal status.
InFlight(j) ==
    pc[j] \in {"queued", "construct", "metadata", "audio", "video", "metrics",
               "summary", "publish", "except"}

----------------------------------------------------------------------------
(* GET /api/jobs/<job_id>/stream: the generator of stream_progress *)

\* app_free.py: max_iterations
max_iterations == 300

\* Snapshots up to which a loop without a counter of its own is followed.
MaxEmitted == 302

\* The stream handlers the running deployment can be serving.
StreamImpls == IF backend = "redis" THEN {"app", "app_free"} ELSE {"app_simple"}

\* yield: one more snapshot with the given state has been sent.
Emit(st, state) ==
    [st EXCEPT !.emitted = @ + 1, !.last = state,
               !.terminal = @ \/ state \in Terminal]

StreamFrame ==
    <<backend, jobVars, elapsed, watched, lastStatus, hi, termSeen, lastResult>>

\* The request arrives and the generator is created.
StreamOpen ==
    /\ stream.pc = "closed"
    /\ \E impl \in StreamImpls :
          stream' = [StreamClosed EXCEPT !.pc = "polling", !.impl = impl,
                                         !.inflight = InFlight(watched)]
    /\ UNCHANGED StreamFrame

\* app.py: while True: read, yield, break on DONE or ERROR, sleep.
stream_progress_app ==
    /\ stream.pc = "polling"
    /\ stream.impl = "app"
    /\ stream.emitted < MaxEmitted
    /\ LET status == get_job_status(watched)
       IN stream' = [Emit(stream, status.state) EXCEPT
                        !.pc = IF status.state \in Terminal THEN "after" ELSE "polling"]
    /\ UNCHANGED StreamFrame

\* Fault: the counter is advanced before the terminal state is tested.
stream_progress_free_early ==
    /\ stream.pc = "polling"
    /\ stream.impl = "app_free"
    /\ stream.iteration < max_iterations
    /\ LET status == get_job_status(watched)
       IN stream' = [Emit(stream, status.state) EXCEPT
                        !.iteration = @ + 1,
                        !.pc = IF status.state \in Terminal
                                  \/ stream.iteration + 1 >= max_iterations
                               THEN "after" ELSE "polling"]
    /\ UNCHANGED StreamFrame

\* app_free.py: while iteration < max_iterations: read, yield, break on DONE
\* or ERROR, sleep, iteration += 1.
stream_progress_free ==
    /\ stream.pc = "polling"
    /\ stream.impl = "app_free"
    /\ stream.iteration < max_iterations
    /\ LET status == get_job_status(watched)
       IN stream' =
            IF status.state \in Terminal
            THEN [Emit(stream, status.state) EXCEPT !.pc = "after"]
            ELSE [Emit(stream, status.state) EXCEPT
                     !.iteration = @ + 1,
                     !.pc = IF stream.iteration + 1 < max_iterations
                            THEN "polling" ELSE "after"]
    /\ UNCHANGED StreamFrame

\* app_simple.py: while True: job_status.get; a missing entry is answered
\* with NOT_FOUND and ends the loop.
stream_progress_simple ==
    /\ stream.pc = "polling"
    /\ stream.impl = "app_simple"
    /\ stream.emitted < MaxEmitted
    /\ stream' =
          IF watched \in DOMAIN job_status
          THEN [Emit(stream, job_status[watched].state) EXCEPT
                   !.pc = IF job_status[watched].state \in Terminal
                          THEN "after" ELSE "polling"]
          ELSE [Emit(stream, "NOT_FOUND") EXCEPT !.pc = "after"]
    /\ UNCHANGED StreamFrame

\* Fault: the timeout status is written to the store as well.
StreamEnd_stored ==
    /\ stream.pc = "after"
    /\ stream' =
          IF stream.impl = "app_free" /\ stream.iteration >= max_iterations
          THEN [Emit(stream, "ERROR") EXCEPT
                   !.terminal = stream.terminal, !.timeout = TRUE, !.pc = "ended"]
          ELSE [stream EXCEPT !.pc = "ended"]
    /\ job_status' =
          IF stream.impl = "app_free" /\ stream.iteration >= max_iterations
          THEN update_job_status(job_status, watched, "ERROR", 0, "", <<"Timeout">>)
          ELSE job_status
    /\ UNCHANGED <<backend, pc, job_storage, uploads, error_msg, log, runs,
                   submits, media, calc, audio_issues, video_issues, elapsed, watched,
                   lastStatus, hi, termSeen, lastResult>>

\* After the loop: app_free.py sends {'state': 'ERROR', 'error': 'Timeout'}
\* if iteration >= max_iterations; then the generator is exhausted.
StreamEnd ==
    /\ stream.pc = "after"
    /\ stream' =
          IF stream.impl = "app_free" /\ stream.iteration >= max_iterations
          THEN [Emit(stream, "ERROR") EXCEPT
                   !.terminal = stream.terminal, !.timeout = TRUE, !.pc = "ended"]
          ELSE [stream EXCEPT !.pc = "ended"]
    /\ UNCHANGED StreamFrame

----------------------------------------------------------------------------
Next ==
    \/ create_job
    \/ \E j \in JobIds : Start(j)
    \/ \E j \in JobIds : Construct(j)
    \/ \E j \in JobIds : Metadata(j)
    \/ \E j \in JobIds : Audio(j)
    \/ \E j \in JobIds : Video(j)
    \/ \E j \in JobIds : Metrics(j)
    \/ \E j \in JobIds : StoreResult(j)
    \/ \E j \in JobIds : Publish(j)
    \/ \E j \in JobIds : Cleanup(j)
    \/ \E j \in JobIds : Except(j)
    \/ \E j \in JobIds : ErrCleanup(j)
    \/ Tick
    \/ PollStatus
    \/ PollResult

Spec == Init /\ [][Next]_vars

\* The job machine on its own: submissions and task steps, no client and no
\* clock.  A queued task is eventually picked up: the thread has been started
\* (thread.start), the Celery message is consumed by a worker.
JobNext ==
    \/ create_job
    \/ \E j \in JobIds : Start(j)
    \/ \E j \in JobIds : Construct(j)
    \/ \E j \in JobIds : Metadata(j)
    \/ \E j \in JobIds : Audio(j)
    \/ \E j \in JobIds : Video(j)
    \/ \E j \in JobIds : Metrics(j)
    \/ \E j \in JobIds : StoreResult(j)
    \/ \E j \in JobIds : Publish(j)
    \/ \E j \in JobIds : Cleanup(j)
    \/ \E j \in JobIds : Except(j)
    \/ \E j \in JobIds : ErrCleanup(j)

JobFairSpec ==
    Init /\ [][JobNext]_vars /\ \A j \in JobIds : WF_vars(Start(j))

\* The steps of the task of job j.
TaskStep(j) ==
    \/ Start(j)
    \/ Construct(j)
    \/ Metadata(j)
    \/ Audio(j)
    \/ Video(j)
    \/ Metrics(j)
    \/ StoreResult(j)
    \/ Publish(j)
    \/ Cleanup(j)
    \/ Except(j)
    \/ ErrCleanup(j)

\* Submissions, the task of the watched job, and one status stream for the
\* watched identifier.  The tasks of other jobs stay queued: they touch
\* nothing the stream reads.
StreamNext ==
    \/ create_job
    \/ TaskStep(watched)
    \/ StreamOpen
    \/ stream_progress_app
    \/ stream_progress_free
    \/ stream_progress_simple
    \/ StreamEnd

StreamSpec == Init /\ [][StreamNext]_vars

\* The job machine of every deployment, test_simple.py included, with the
\* first job's upload ranging over the files of the catalogue.
RunInit ==
    Boot(Deployments, {f \in [JobIds -> Medias] : f["job-b"] = PlainClip}, {NoCall})

RunNext ==
    \/ JobNext
    \/ create_job_simple
    \/ \E j \in JobIds : SimpleMetadata(j)
    \/ \E j \in JobIds : SimpleVideo(j)
    \/ \E j \in JobIds : SimpleAnalysis(j)
    \/ \E j \in JobIds : SimpleReport(j)

RunSpec == RunInit /\ [][RunNext]_vars

----------------------------------------------------------------------------
(* The analyzer's functions, evaluated on their own *)

CalcFrame ==
    <<backend, pc, job_status, job_storage, uploads, error_msg, log, runs,
      submits, media, audio_issues, video_issues, elapsed, watched, readerVars>>

\* The call in calc returns value.
Return(value) == calc' = [calc EXCEPT !.ret = value, !.done = TRUE]

----------------------------------------------------------------------------
(* _seconds_to_timestamp / _timestamp_to_seconds.  A string is a sequence  *)
(* of one-character strings.  Times are counted in half milliseconds, so   *)
(* that the %06.3f conversion has something to round.                      *)

DIGITS == <<"0", "1", "2", "3", "4", "5", "6", "7", "8", "9">>

\* Time units in a millisecond, a second, a minute, an hour.
UnitsPerMs == 2
UnitsPerSecond == 1000 * UnitsPerMs
UnitsPerMinute == 60 * UnitsPerSecond
UnitsPerHour == 60 * UnitsPerMinute

\* str(n) for n >= 0.
RECURSIVE Decimal(_)
Decimal(n) ==
    IF n < 10 THEN <<DIGITS[n + 1]>>
    ELSE Append(Decimal(n \div 10), DIGITS[(n % 10) + 1])

\* Zero padding to a minimum width ({:02d}, the 06 of {:06.3f}).
RECURSIVE Pad(_, _)
Pad(text, width) == IF Len(text) >= width THEN text ELSE Pad(<<"0">> \o text, width)

\* The value rounded to whole milliseconds by the .3f conversion.  A value
\* halfway between two milliseconds goes the way its binary neighbour lies:
\* tie_up tells which.
RoundMs(units, tie_up) ==
    LET rest == units % UnitsPerMs
        down == units \div UnitsPerMs
    IN IF 2 * rest > UnitsPerMs \/ (2 * rest = UnitsPerMs /\ tie_up)
       THEN down + 1 ELSE down

\* Fault: the minutes are not reduced modulo the hour.
seconds_to_timestamp_minutes(units, tie_up) ==
    LET hours == units \div UnitsPerHour
        minutes == units \div UnitsPerMinute
        secs == RoundMs(units % UnitsPerMinute, tie_up)
    IN Pad(Decimal(hours), 2) \o <<":">> \o Pad(Decimal(minutes), 2) \o <<":">>
       \o Pad(Decimal(secs \div 1000), 2) \o <<".">> \o Pad(Decimal(secs % 1000), 3)

\* f"{hours:02d}:{minutes:02d}:{secs:06.3f}"
seconds_to_timestamp(units, tie_up) ==
    LET hours == units \div UnitsPerHour
        minutes == (units % UnitsPerHour) \div UnitsPerMinute
        secs == RoundMs(units % UnitsPerMinute, tie_up)
    IN Pad(Decimal(hours), 2) \o <<":">> \o Pad(Decimal(minutes), 2) \o <<":">>
       \o Pad(Decimal(secs \div 1000), 2) \o <<".">> \o Pad(Decimal(secs % 1000), 3)

\* text.split(sep)
RECURSIVE Split(_, _)
Split(text, sep) ==
    IF \A i \in 1..Len(text) : text[i] # sep
    THEN <<text>>
    ELSE LET k == CHOOSE i \in 1..Len(text) :
                     text[i] = sep /\ \A h \in 1..(i - 1) : text[h] # sep
         IN <<SubSeq(text, 1, k - 1)>> \o Split(SubSeq(text, k + 1, Len(text)), sep)

\* int(text) for a string of digits.
RECURSIVE ParseInt(_)
ParseInt(text) ==
    IF text = <<>> THEN 0
    ELSE 10 * ParseInt(SubSeq(text, 1, Len(text) - 1))
         + (CHOOSE d \in 0..9 : DIGITS[d + 1] = text[Len(text)])

RECURSIVE Pow10(_)
Pow10(n) == IF n = 0 THEN 1 ELSE 10 * Pow10(n - 1)

\* float(text) for digits '.' digits, in time units.
ParseFloat(text) ==
    LET parts == Split(text, ".")
        frac == IF Len(parts) > 1 THEN parts[2] ELSE <<>>
    IN ParseInt(parts[1]) * UnitsPerSecond
       + (ParseInt(frac) * UnitsPerSecond) \div Pow10(Len(frac))

\* hours * 3600 + minutes * 60 + seconds
timestamp_to_seconds(text) ==
    LET parts == Split(text, ":")
    IN ParseInt(parts[1]) * UnitsPerHour + ParseInt(parts[2]) * UnitsPerMinute
       + ParseFloat(parts[3])

\* Times to format: around the millisecond, the minute and the hour, and
\* with three-digit hours.
TimeValues ==
    { h * UnitsPerHour + m * UnitsPerMinute + t :
        h \in {0, 1, 99, 100}, m \in {0, 59},
        t \in {0, 1, 2, 3, 4000, 4001, 119996, 119997, 119998, 119999} }

TimestampCalls ==
    { Call("timestamp", [seconds |-> x, tie_up |-> u]) :
        x \in TimeValues, u \in BOOLEAN }

FormatTimestamp ==
    /\ calc.fn = "timestamp"
    /\ calc.ret = <<>>
    /\ calc' = [calc EXCEPT !.ret = seconds_to_timestamp(calc.arg.seconds, calc.arg.tie_up)]
    /\ UNCHANGED CalcFrame

ParseTimestamp ==
    /\ calc.fn = "timestamp"
    /\ calc.ret # <<>>
    /\ ~calc.done
    /\ Return([text |-> calc.ret, seconds |-> timestamp_to_seconds(calc.ret)])
    /\ UNCHANGED CalcFrame

TimestampNext == FormatTimestamp \/ ParseTimestamp

TimestampSpec ==
    Boot(Backends, [JobIds -> {PlainClip}], TimestampCalls) /\ [][TimestampNext]_vars

----------------------------------------------------------------------------
(* The audio detectors on a sample sequence.  An amplitude is counted in   *)
(* thousandths of full scale, a span in 0-based sample indices.            *)

IssueDict(type, timestamp, duration, severity) ==
    [type |-> type, timestamp |-> timestamp, duration |-> duration,
     severity |-> severity]

\* The literal '00:00:00.000'.
ZeroTimestamp == <<"0","0",":","0","0",":","0","0",".","0","0","0">>

Abs(n) == IF n < 0 THEN 0 - n ELSE n

\* n samples (or n sample intervals) at rate per second, in time units.
Seconds(n, rate) == (n * UnitsPerSecond) \div rate

RECURSIVE Ascending(_)
Ascending(S) ==
    IF S = {} THEN <<>>
    ELSE LET m == CHOOSE x \in S : \A y \in S : x <= y
         IN <<m>> \o Ascending(S \ {m})

\* np.where(values == v)[0]
where(values, v) == Ascending({ i - 1 : i \in { k \in 1..Len(values) : values[k] = v } })

\* Fault: no closing False after the flags.
diff_open(flags) ==
    LET padded == <<0>> \o [i \in 1..Len(flags) |-> IF flags[i] THEN 1 ELSE 0]
    IN [i \in 1..(Len(padded) - 1) |-> padded[i + 1] - padded[i]]

\* np.diff(np.concatenate([[False], flags, [False]]).astype(int))
diff(flags) ==
    LET padded == <<0>> \o [i \in 1..Len(flags) |-> IF flags[i] THEN 1 ELSE 0] \o <<0>>
    IN [i \in 1..(Len(padded) - 1) |-> padded[i + 1] - padded[i]]

\* zip(a, b)
zip(a, b) ==
    [i \in 1..(IF Len(a) < Len(b) THEN Len(a) ELSE Len(b)) |-> <<a[i], b[i]>>]

\* starts = np.where(diff == 1)[0]; ends = np.where(diff == -1)[0];
\* zip(starts, ends)
Spans(flags) == zip(where(diff(flags), 1), where(diff(flags), -1))

\* clip_threshold = 0.99
clip_threshold == 990

\* np.abs(audio_data) >= clip_threshold
Clipped(samples) == [i \in 1..Len(samples) |-> Abs(samples[i]) >= clip_threshold]

\* _detect_clipping
detect_clipping(samples, rate) ==
    LET spans == Spans(Clipped(samples))
    IN [k \in 1..Len(spans) |->
          IssueDict("clipping",
                    seconds_to_timestamp(Seconds(spans[k][1], rate), FALSE),
                    Seconds(spans[k][2] - spans[k][1], rate), "high")]

\* silence_threshold = -40 dBFS as an amplitude: 10 ^ (-40 / 20) of full scale.
silence_amplitude == 10

\* min_silence_duration = 1.0, in seconds
min_silence_duration == 1

\* 20 * np.log10(np.abs(audio_data) + 1e-10) < silence_threshold
Silent(samples) == [i \in 1..Len(samples) |-> Abs(samples[i]) < silence_amplitude]

\* Fault: a run of exactly min_silence_duration is dropped.
detect_silences_strict(samples, rate) ==
    LET spans == Spans(Silent(samples))
        Duration(span) == Seconds(span[2] - span[1], rate)
        Long(span) == Duration(span) > min_silence_duration * UnitsPerSecond
        kept == SelectSeq(spans, Long)
    IN [k \in 1..Len(kept) |->
          IssueDict("silence",
                    seconds_to_timestamp(Seconds(kept[k][1], rate), FALSE),
                    Duration(kept[k]),
                    IF Duration(kept[k]) < 3 * UnitsPerSecond THEN "low" ELSE "medium")]

\* _detect_silences
detect_silences(samples, rate) ==
    LET spans == Spans(Silent(samples))
        Duration(span) == Seconds(span[2] - span[1], rate)
        Long(span) == Duration(span) >= min_silence_duration * UnitsPerSecond
        kept == SelectSeq(spans, Long)
    IN [k \in 1..Len(kept) |->
          IssueDict("silence",
                    seconds_to_timestamp(Seconds(kept[k][1], rate), FALSE),
                    Duration(kept[k]),
                    IF Duration(kept[k]) < 3 * UnitsPerSecond THEN "low" ELSE "medium")]

\* What pyloudnorm's meter does on the samples: it raises, or returns the
\* integrated loudness, -inf or a value in LUFS.
Loudness(kind, value) == [kind |-> kind, value |-> value]
Loudnesses ==
    {Loudness("raises", 0), Loudness("inf", 0)}
        \cup { Loudness("lufs", v) : v \in {-29, -28, -12, -11} }

\* _analyze_loudness
analyze_loudness(samples, rate, loudness) ==
    IF loudness.kind # "lufs" THEN <<>>
    ELSE IF loudness.value < -28
    THEN <<IssueDict("low_loudness", ZeroTimestamp, Seconds(Len(samples), rate), "medium")>>
    ELSE IF loudness.value > -12
    THEN <<IssueDict("high_loudness", ZeroTimestamp, Seconds(Len(samples), rate), "medium")>>
    ELSE <<>>

\* _detect_voice_glitches: the groups of glitch frames librosa's features
\* give, each a pair of a start and a duration in time units; a group of
\* 50 ms or less is not reported.  When librosa raises there is no group.
detect_voice_glitches(groups) ==
    LET Reported(g) == g[2] * 100 > 5 * UnitsPerSecond
        kept == SelectSeq(groups, Reported)
    IN [k \in 1..Len(kept) |->
          IssueDict("voice_glitch", seconds_to_timestamp(kept[k][1], FALSE),
                    kept[k][2], "medium")]

\* sorted(issues, key=lambda x: self._timestamp_to_seconds(x['timestamp']))
RECURSIVE sorted_by_seconds(_)
sorted_by_seconds(s) ==
    IF s = <<>> THEN <<>>
    ELSE LET Key(i) == timestamp_to_seconds(s[i].timestamp)
             k == CHOOSE i \in 1..Len(s) :
                      /\ \A h \in 1..Len(s) : Key(i) <= Key(h)
                      /\ \A h \in 1..(i - 1) : Key(h) > Key(i)
         IN <<s[k]>> \o sorted_by_seconds(SubSeq(s, 1, k - 1) \o SubSeq(s, k + 1, Len(s)))

\* VideoAnalyzer.analyze_audio on decoded samples
analyze_audio_samples(a) ==
    sorted_by_seconds(analyze_loudness(a.samples, a.sample_rate, a.loudness)
                      \o detect_clipping(a.samples, a.sample_rate)
                      \o detect_silences(a.samples, a.sample_rate)
                      \o detect_voice_glitches(a.glitches))

RECURSIVE Sum(_)
Sum(s) == IF s = <<>> THEN 0 ELSE Head(s) + Sum(Tail(s))

\* np.sum(values ** 2), in thousandths squared
SumSq(s) == Sum([i \in 1..Len(s) |-> s[i] * s[i]])

\* range(0, stop, step) for step > 0
Range(stop, step) == Ascending({ i \in 0..(IF stop > 0 THEN stop - 1 ELSE 0) : i < stop /\ i % step = 0 })

\* test_simple.py, the audio part of analyze_video_simple on decoded mono
\* samples: the checks up to the silence windows, whose range() raises on a
\* window of no sample, and the except clause.
analyze_audio_simple_samples(a) ==
    LET n == Len(a.samples)
        whole == Seconds(n, a.sample_rate)
        clipped == Cardinality({ i \in 1..n : Abs(a.samples[i]) >= 950 })
        \* clip_percentage = clipped / n * 100, > 0.01 and > 0.5
        clipping ==
            IF clipped > 0 /\ clipped * 10000 > n
            THEN <<IssueDict("clipping", ZeroTimestamp, whole,
                             IF clipped * 200 > n THEN "high" ELSE "medium")>>
            ELSE <<>>
        \* rms < 0.05, rms > 0.8
        volume ==
            IF SumSq(a.samples) < 2500 * n
            THEN <<IssueDict("low_volume", ZeroTimestamp, whole, "medium")>>
            ELSE IF SumSq(a.samples) > 640000 * n
            THEN <<IssueDict("high_volume", ZeroTimestamp, whole, "medium")>>
            ELSE <<>>
        \* abs(np.mean(audio_mono)) > 0.01
        offset ==
            IF Abs(Sum(a.samples)) > 10 * n
            THEN <<IssueDict("dc_offset", ZeroTimestamp, whole, "low")>>
            ELSE <<>>
        \* int(sample_rate * 0.5)
        window_size == a.sample_rate \div 2
        starts == Range(n - window_size, window_size)
        Quiet(i) == SumSq(SubSeq(a.samples, i + 1, i + window_size)) < window_size
        quiet == SelectSeq(starts, Quiet)
        windows ==
            [k \in 1..Len(quiet) |->
                IssueDict("silence",
                          seconds_to_timestamp(Seconds(quiet[k], a.sample_rate), FALSE),
                          UnitsPerSecond \div 2, "low")]
    IN IF window_size = 0
       THEN clipping \o volume \o offset
            \o <<IssueDict("analysis_error", ZeroTimestamp, 0, "low")>>
       ELSE clipping \o volume \o offset \o windows

\* len([i for i in issues if test(i)])
Count(s, Test(_)) == Cardinality({ i \in 1..Len(s) : Test(s[i]) })

\* VideoAnalyzer.generate_summary
generate_summary(audio, video) ==
    LET total_issues == Len(audio) + Len(video)
        high_severity == Count(audio \o video, LAMBDA i : i.severity = "high")
    IN [status |-> IF high_severity > 0 THEN "FAIL"
                   ELSE IF total_issues > 5 THEN "FAIL"
                   ELSE "PASS",
        total_issues |-> total_issues,
        high_severity_issues |-> high_severity]

\* test_simple.py, the summary of analyze_video_simple
generate_summary_simple(audio, video) ==
    LET total_issues == Len(audio) + Len(video)
        high_severity == Count(audio \o video, LAMBDA i : i.severity = "high")
        medium_severity == Count(audio \o video, LAMBDA i : i.severity = "medium")
    IN [status |-> IF high_severity > 0 THEN "FAIL"
                   ELSE IF medium_severity > 2 \/ total_issues > 5 THEN "WARNING"
                   ELSE "PASS",
        total_issues |-> total_issues,
        high_severity_issues |-> high_severity]

\* The two analyzers.
Analyzers == {"video_analyzer", "test_simple"}

\* Amplitudes: digital silence, the silence threshold, the clipping
\* threshold (negative), full scale.
Amplitudes == {0, 10, -990, 1000}
SampleRates == {1, 2}
MaxSamples == 7
LongClip == 10

Const(x, n) == [i \in 1..n |-> x]

\* Sample sequences of at most three stretches of constant amplitude, and
\* the long clips of one amplitude.
SampleSeqs(longest) ==
    { Const(t[1], t[4]) \o Const(t[2], t[5]) \o Const(t[3], t[6]) :
        t \in { u \in Amplitudes \X Amplitudes \X Amplitudes
                      \X (0..longest) \X (0..longest) \X (0..longest) :
                  u[4] + u[5] + u[6] \in 1..longest } }
    \cup { Const(x, LongClip) : x \in Amplitudes }

GlitchGroups == {<<>>, <<<<UnitsPerSecond \div 2, UnitsPerSecond \div 10>>>>}

AudioInput(v, s, r, l, g) ==
    [variant |-> v, samples |-> s, sample_rate |-> r, loudness |-> l, glitches |-> g]

\* The calls of the audio stage.  On digital silence the meter returns
\* -inf and no frame has a zero-crossing rate above the threshold; the
\* inline analyzer uses neither library.
AudioCalls(longest) ==
    LET clips == SampleSeqs(longest)
    IN { Call("audio", AudioInput("video_analyzer", s, r, l, g)) :
           s \in { x \in clips : \E i \in 1..Len(x) : x[i] # 0 },
           r \in SampleRates, l \in Loudnesses, g \in GlitchGroups }
       \cup { Call("audio", AudioInput(v, s, r, Loudness("inf", 0), <<>>)) :
                v \in Analyzers, s \in clips, r \in SampleRates }

\* analyze_audio (or the audio part of analyze_video_simple) and the
\* summary of a result with these audio issues and no video issue.
AnalyzeAudio ==
    /\ calc.fn = "audio"
    /\ ~calc.done
    /\ LET a == calc.arg
           issues == IF a.variant = "video_analyzer"
                     THEN analyze_audio_samples(a)
                     ELSE analyze_audio_simple_samples(a)
       IN Return([clipped |-> Spans(Clipped(a.samples)),
                  silent |-> Spans(Silent(a.samples)),
                  audio_issues |-> issues,
                  summary |-> IF a.variant = "video_analyzer"
                              THEN generate_summary(issues, <<>>)
                              ELSE generate_summary_simple(issues, <<>>)])
    /\ UNCHANGED CalcFrame

AudioSpec ==
    Boot({"memory"}, [JobIds -> {PlainClip}], AudioCalls(MaxSamples)) /\ [][AnalyzeAudio]_vars

----------------------------------------------------------------------------
(* The frame loops on the sampled frames.  A frame is its luma value, the  *)
(* same at every pixel, or Unreadable when get_frame raises on it.         *)

Unreadable == -1
None == -1

\* np.mean((gray_frame - prev_frame) ** 2) on uint8 arrays: the difference
\* and the square are taken modulo 256.
mse(a, b) == LET d == (a - b + 256) % 256 IN (d * d) % 256

\* psnr > 45, with psnr = inf when mse == 0 and 20 * log10(255 / sqrt(mse))
\* otherwise: 255 ^ 2 / mse > 10 ^ 4.5
Similar(a, b) == mse(a, b) = 0 \/ 65025 * 100 > mse(a, b) * 3162278

\* sample_interval = 1.0, in seconds
sample_interval == 1

\* The frozen_frame issue of the run that ends, if it lasted more than 2 s.
FrozenIssue(st) ==
    IF st.frozen_start # None /\ st.frozen_duration > 2 * UnitsPerSecond
    THEN <<IssueDict("frozen_frame", seconds_to_timestamp(st.frozen_start, FALSE),
                     st.frozen_duration,
                     IF st.frozen_duration > 5 * UnitsPerSecond
                     THEN "high" ELSE "medium")>>
    ELSE <<>>

\* Fault: the brightness is compared as a fraction of full scale.
black_frame_fraction(frame, t) ==
    IF frame * 255 < 8
    THEN <<IssueDict("black_frame", seconds_to_timestamp(t, FALSE),
                     sample_interval * UnitsPerSecond, "medium")>>
    ELSE <<>>

\* if mean_brightness < 8: the black_frame issue of the frame sampled at t
black_frame(frame, t) ==
    IF frame < 8
    THEN <<IssueDict("black_frame", seconds_to_timestamp(t, FALSE),
                     sample_interval * UnitsPerSecond, "medium")>>
    ELSE <<>>

\* One pass of the loop of analyze_video, for the frame sampled at t.
video_frame(st, frame, t) ==
    LET step == sample_interval * UnitsPerSecond
        black == black_frame(frame, t)
    IN IF frame = Unreadable
       THEN [st EXCEPT !.issues = Append(@,
                IssueDict("frame_analysis_error", seconds_to_timestamp(t, FALSE),
                          0, "low"))]
       ELSE IF st.prev_frame = None
       THEN [st EXCEPT !.issues = @ \o black, !.prev_frame = frame]
       ELSE IF Similar(frame, st.prev_frame)
       THEN [prev_frame |-> frame,
             frozen_start |-> IF st.frozen_start = None THEN t - step
                              ELSE st.frozen_start,
             frozen_duration |-> st.frozen_duration + step,
             issues |-> st.issues \o black]
       ELSE [prev_frame |-> frame, frozen_start |-> None, frozen_duration |-> 0,
             issues |-> st.issues \o black \o FrozenIssue(st)]

\* Fault: the frame that cannot be decoded ends the loop.
RECURSIVE video_loop_abort(_, _, _)
video_loop_abort(frames, k, st) ==
    IF k > Len(frames) THEN st
    ELSE IF frames[k] = Unreadable
    THEN video_frame(st, frames[k], (k - 1) * sample_interval * UnitsPerSecond)
    ELSE video_loop_abort(frames, k + 1,
                          video_frame(st, frames[k],
                                      (k - 1) * sample_interval * UnitsPerSecond))

\* for t in np.arange(0, duration, sample_interval)
RECURSIVE video_loop(_, _, _)
video_loop(frames, k, st) ==
    IF k > Len(frames) THEN st
    ELSE video_loop(frames, k + 1,
                    video_frame(st, frames[k],
                                (k - 1) * sample_interval * UnitsPerSecond))

\* VideoAnalyzer.analyze_video on the sampled frames; broken: the clip's
\* attributes raise before the loop.
analyze_video_frames(v) ==
    IF v.broken
    THEN sorted_by_seconds(<<IssueDict("video_analysis_error", ZeroTimestamp, 0, "high")>>)
    ELSE LET st == video_loop(v.frames, 1,
                              [prev_frame |-> None, frozen_start |-> None,
                               frozen_duration |-> 0, issues |-> <<>>])
         IN sorted_by_seconds(st.issues \o FrozenIssue(st))

\* sample_interval = 2.0 of test_simple.py, in seconds
sample_interval_simple == 2

\* One pass of the frame loop of analyze_video_simple.
simple_frame(st, frame, t, v) ==
    LET step == sample_interval_simple * UnitsPerSecond
        whole == Len(v.frames) * step
        frame_count == st.frame_count + 1
        black ==
            IF frame < 20
            THEN <<IssueDict("black_frame", seconds_to_timestamp(t, FALSE), step,
                             IF frame < 5 THEN "high" ELSE "medium")>>
            ELSE <<>>
        \* np.mean(cv2.absdiff(gray, prev_frame)) < 2.0
        frozen ==
            IF st.prev_frame # None /\ Abs(frame - st.prev_frame) < 2
            THEN <<IssueDict("frozen_frame", seconds_to_timestamp(t, FALSE), step,
                             "medium")>>
            ELSE <<>>
        resolution ==
            IF "low_resolution" \in v.static /\ frame_count = 1
            THEN <<IssueDict("low_resolution", ZeroTimestamp, whole, "medium")>>
            ELSE <<>>
        framerate ==
            IF "low_framerate" \in v.static /\ frame_count = 1
            THEN <<IssueDict("low_framerate", ZeroTimestamp, whole, "low")>>
            ELSE <<>>
    IN IF frame = Unreadable
       THEN [st EXCEPT !.issues = Append(@,
                IssueDict("frame_analysis_error", seconds_to_timestamp(t, FALSE),
                          0, "low"))]
       ELSE [prev_frame |-> frame, frame_count |-> frame_count,
             issues |-> st.issues \o black \o frozen \o resolution \o framerate]

\* for t in sample_times
RECURSIVE simple_loop(_, _, _)
simple_loop(v, k, st) ==
    IF k > Len(v.frames) THEN st
    ELSE simple_loop(v, k + 1,
                     simple_frame(st, v.frames[k],
                                  (k - 1) * sample_interval_simple * UnitsPerSecond, v))

\* The video part of analyze_video_simple on the sampled frames; broken:
\* the clip cannot be opened and the error result is returned.
analyze_video_simple_frames(v) ==
    IF v.broken THEN <<>>
    ELSE simple_loop(v, 1, [prev_frame |-> None, frame_count |-> 0,
                            issues |-> <<>>]).issues

\* Luma values: black, dark, and three brighter ones, of which 100 and 116
\* differ by 16.
Lumas == {0, 5, 100, 116, 150}
MaxFrames == 7

\* Sampled frame sequences of at most three stretches of one frame value.
FrameSeqs(longest) ==
    { Const(t[1], t[4]) \o Const(t[2], t[5]) \o Const(t[3], t[6]) :
        t \in { u \in (Lumas \cup {Unreadable}) \X (Lumas \cup {Unreadable})
                      \X (Lumas \cup {Unreadable})
                      \X (0..longest) \X (0..longest) \X (0..longest) :
                  u[4] + u[5] + u[6] <= longest } }

\* video.w < 720 or video.h < 480; video.fps < 24
StaticIssues == {"low_resolution", "low_framerate"}

VideoInput(v, f, s, b) == [variant |-> v, frames |-> f, static |-> s, broken |-> b]

VideoCalls(longest) ==
    LET clips == FrameSeqs(longest)
    IN { Call("video", VideoInput("video_analyzer", f, {}, FALSE)) : f \in clips }
       \cup { Call("video", VideoInput("test_simple", f, s, FALSE)) :
                f \in clips, s \in SUBSET StaticIssues }
       \cup { Call("video", VideoInput(v, <<>>, {}, TRUE)) : v \in Analyzers }

\* analyze_video (or the frame loop of analyze_video_simple)
AnalyzeVideo ==
    /\ calc.fn = "video"
    /\ ~calc.done
    /\ Return([video_issues |-> IF calc.arg.variant = "video_analyzer"
                                THEN analyze_video_frames(calc.arg)
                                ELSE analyze_video_simple_frames(calc.arg)])
    /\ UNCHANGED CalcFrame

VideoSpec ==
    Boot({"memory"}, [JobIds -> {PlainClip}], VideoCalls(MaxFrames)) /\ [][AnalyzeVideo]_vars

----------------------------------------------------------------------------
(* The summary on issue lists of every mix of severities *)

MaxCount == 6

\* n issues of one severity.
IssuesOf(severity, n) == Const(IssueDict("issue", ZeroTimestamp, 0, severity), n)

\* The calls: the counts of high, medium and low issues, and how many of
\* the issues are audio issues.
SummaryCalls(most) ==
    { Call("summary", [variant |-> v, high |-> c[1], medium |-> c[2], low |-> c[3],
                       audio |-> c[4]]) :
        v \in Analyzers,
        c \in { d \in (0..most) \X (0..most) \X (0..most) \X (0..(3 * most)) :
                  d[4] <= d[1] + d[2] + d[3] } }

\* generate_summary(audio_issues, video_issues, metrics), or the summary
\* of analyze_video_simple
Summarize ==
    /\ calc.fn = "summary"
    /\ ~calc.done
    /\ LET a == calc.arg
           issues == IssuesOf("low", a.low) \o IssuesOf("high", a.high)
                     \o IssuesOf("medium", a.medium)
           audio == SubSeq(issues, 1, a.audio)
           video == SubSeq(issues, a.audio + 1, Len(issues))
       IN Return(IF a.variant = "video_analyzer"
                 THEN generate_summary(audio, video)
                 ELSE generate_summary_simple(audio, video))
    /\ UNCHANGED CalcFrame

SummarySpec ==
    Boot({"memory"}, [JobIds -> {PlainClip}], SummaryCalls(MaxCount)) /\ [][Summarize]_vars

----------------------------------------------------------------------------
(* Properties of the job lifecycle *)

IsStatus(e) == e.ev = "status"
IsRaise(e) == e.ev = "raise"

C2_RunningProgressMonotone ==
    (lastStatus.state = "RUNNING" /\ termSeen = "") => lastStatus.progress >= hi

C2_Witness == lastStatus.state = "RUNNING" /\ lastStatus.progress = 60 /\ hi = 30

\* C3: after a response carried DONE or ERROR, no response carries RUNNING or
\* the other terminal state, and no status is written after the DONE or
\* ERROR write of a job.
C3_TerminalAbsorbing ==
    /\ termSeen # "" => lastStatus.state \in {termSeen, "NOT_FOUND"}
    /\ \A j \in JobIds : \A i \in 1..Len(log[j]) :
          (IsStatus(log[j][i]) /\ log[j][i].what \in Terminal)
              => \A k \in (i + 1)..Len(log[j]) : ~IsStatus(log[j][k])

C3_Witness ==
    /\ termSeen = "DONE"
    /\ pc[watched] = "finished"
    /\ lastStatus.state = "DONE"
    /\ hi = 100

\* C4 (as stated): from the return of create_job until the terminal write,
\* the status query answers QUEUED or RUNNING, never NOT_FOUND.
C4_AdmittedJobIsStored ==
    \A j \in JobIds :
        InFlight(j) => get_job_status(j).state \in {"QUEUED", "RUNNING"}

\* C5 (as stated): whenever the status query answers DONE, the result query
\* returns the result.
C5_DoneHasResult ==
    \A j \in JobIds :
        get_job_status(j).state = "DONE" => get_job_result(j) = "present"

\* C6 (as stated): the result query returns a result only while the status
\* query answers neither RUNNING nor ERROR.
C6_ResultOnlyWhenDone ==
    \A j \in JobIds :
        get_job_result(j) = "present"
            => get_job_status(j).state \notin {"RUNNING", "ERROR"}

\* C7: once a step of the task has raised, the next thing written is the
\* ERROR status, no stage runs and no result or DONE status is written after
\* it, and the stored ERROR status carries the captured message.
C7_RaiseLeadsToError ==
    \A j \in JobIds :
        /\ \A i \in 1..Len(log[j]) :
              IsRaise(log[j][i]) =>
                 /\ i < Len(log[j]) => log[j][i + 1] = StatusEv("ERROR", 0)
                 /\ \A k \in (i + 2)..Len(log[j]) : log[j][k] = RemoveEv
        /\ (j \in DOMAIN job_status /\ job_status[j].state = "ERROR") =>
              /\ job_status[j].error # <<>>
              /\ job_status[j].error[1] = error_msg[j]
        /\ pc[j] \in {"errcleanup", "failed"} =>
              /\ \E i \in 1..Len(log[j]) : IsRaise(log[j][i])
              /\ StatusEv("ERROR", 0) \in {log[j][i] : i \in 1..Len(log[j])}

C7_Witness ==
    \E j \in JobIds :
        /\ pc[j] = "failed"
        /\ j \in DOMAIN job_status
        /\ job_status[j].state = "ERROR"
        /\ error_msg[j] = "No such file or directory"

\* C8: every identifier handed out has its task entered at most once, exactly
\* once as soon as the task has left the queue, never again after it ended;
\* the identifiers handed out are as many as the accepted submissions; and
\* a queued task is eventually entered.
C8_StartedExactlyOnce ==
    /\ [](/\ \A j \in JobIds :
              /\ runs[j] <= 1
              /\ pc[j] \in {"idle", "queued"} => runs[j] = 0
              /\ pc[j] \notin {"idle", "queued"} => runs[j] = 1
          /\ Cardinality({j \in JobIds : pc[j] # "idle"}) = submits)
    /\ \A j \in JobIds : (pc[j] = "queued") ~> (runs[j] = 1)

C8_Witness ==
    /\ submits = 2
    /\ \E j \in JobIds : pc[j] = "failed" /\ runs[j] = 1
    /\ \E j \in JobIds : pc[j] = "finished" /\ runs[j] = 1

\* The history of a run in which nothing raises, up to the DONE write.
HappyPath ==
    << StatusEv("RUNNING", 0),  StageEv("construct"),
       StatusEv("RUNNING", 10), StageEv("metadata"),
       StatusEv("RUNNING", 30), StageEv("audio"),
       StatusEv("RUNNING", 60), StageEv("video"),
       StatusEv("RUNNING", 80), StageEv("metrics"),
       StatusEv("RUNNING", 90), StageEv("summary"), ResultEv,
       StatusEv("DONE", 100) >>

IsPrefix(s, t) == Len(s) <= Len(t) /\ SubSeq(t, 1, Len(s)) = s

NoRaise(s) == \A i \in 1..Len(s) : ~IsRaise(s[i])

\* C9: while nothing raises, the history of a job is a prefix of RUNNING 0,
\* construct, RUNNING 10, metadata, RUNNING 30, audio, RUNNING 60, video,
\* RUNNING 80, metrics, RUNNING 90, summary, result, DONE 100; it is the whole
\* of it once DONE is written.
C9_CheckpointOrder ==
    \A j \in JobIds :
        NoRaise(log[j]) =>
            LET h == SelectSeq(log[j], LAMBDA e : e # RemoveEv)
            IN /\ IsPrefix(h, HappyPath)
               /\ pc[j] \in {"cleanup", "finished"} => h = HappyPath
               /\ (j \in DOMAIN job_status /\ job_status[j].state = "DONE")
                      => h = HappyPath

C9_Witness ==
    \E j \in JobIds :
        /\ pc[j] = "finished"
        /\ j \in DOMAIN job_status
        /\ job_status[j].state = "DONE"
        /\ job_status[j].progress = 100

\* A step in which the client received a status response.
StatusAnswered ==
    lastStatus' # lastStatus \/ hi' # hi \/ termSeen' # termSeen

\* C10: the status query for an identifier never handed out answers NOT_FOUND
\* with progress 0, the identifier has no entry in either store, and a step
\* that answers a status query changes neither store.
C10_UnknownIdNotFound ==
    /\ [](pc[watched] = "idle" =>
            /\ lastStatus \in {NoResponse, NotFound}
            /\ get_job_status(watched).state = "NOT_FOUND"
            /\ get_job_status(watched).progress = 0
            /\ watched \notin DOMAIN job_status
            /\ watched \notin DOMAIN job_storage)
    /\ [][StatusAnswered => UNCHANGED <<job_status, job_storage>>]_vars

C10_Witness ==
    /\ pc[watched] = "idle"
    /\ lastStatus = NotFound
    /\ DOMAIN job_status # {}

----------------------------------------------------------------------------
(* Properties of the status stream *)

\* Position of a stored state in the lifecycle.
Rank(state) ==
    CASE state = "QUEUED" -> 0
      [] state = "RUNNING" -> 1
      [] state \in Terminal -> 2
      [] OTHER -> 3

\* The states written for job j, in the order of the writes.
Written(j) ==
    LET w == SelectSeq(log[j], IsStatus)
    IN [i \in 1..Len(w) |-> w[i].what]

\* C11: every status in the store and every status ever written has state
\* QUEUED, RUNNING, DONE or ERROR, never NOT_FOUND; the states written for
\* a job never step back in the order QUEUED, RUNNING, DONE or ERROR, and
\* nothing is written after DONE or ERROR; and a step of a status stream,
\* whatever it sends (NOT_FOUND, the timeout ERROR), writes to neither store.
C11_StoredStates ==
    /\ [](\A j \in JobIds :
            /\ j \in DOMAIN job_status => Rank(job_status[j].state) <= 2
            /\ \A i \in 1..Len(Written(j)) :
                  /\ Rank(Written(j)[i]) <= 2
                  /\ \A k \in (i + 1)..Len(Written(j)) :
                        /\ Rank(Written(j)[i]) <= Rank(Written(j)[k])
                        /\ Written(j)[i] \notin Terminal)
    /\ [][stream' # stream => UNCHANGED <<job_status, job_storage>>]_vars

C11_Witness ==
    /\ stream.timeout
    /\ stream.last = "ERROR"
    /\ watched \in DOMAIN job_status
    /\ job_status[watched].state = "RUNNING"

\* C12 (as stated): a status stream sends at most max_iterations snapshots
\* and one closing snapshot, whatever the identifier and whatever the job
\* does.
C12_StreamBounded == stream.emitted <= max_iterations + 1

\* C13: the timeout ERROR is sent only by a stream whose counter has reached
\* max_iterations without a DONE or ERROR snapshot, and it is the last thing
\* sent; a bounded stream that has ended without a DONE or ERROR snapshot
\* has sent it; a stream that has sent a DONE or ERROR snapshot, be it the
\* last one the bound permits, sends nothing after it.
C13_TimeoutOnlyAtBound ==
    /\ stream.timeout =>
          /\ stream.impl = "app_free"
          /\ stream.iteration = max_iterations
          /\ stream.emitted = max_iterations + 1
          /\ ~stream.terminal
          /\ stream.last = "ERROR"
          /\ stream.pc = "ended"
    /\ (stream.pc = "ended" /\ stream.impl = "app_free" /\ ~stream.terminal)
          => stream.timeout
    /\ stream.terminal =>
          /\ ~stream.timeout
          /\ stream.last \in Terminal
          /\ stream.pc \in {"after", "ended"}

\* The DONE snapshot is the 300th, the last one the bound permits.
C13_Witness ==
    /\ stream.impl = "app_free"
    /\ stream.pc = "ended"
    /\ stream.emitted = max_iterations
    /\ stream.last = "DONE"
    /\ ~stream.timeout

\* C14 (as stated): a stream opened while the job was admitted and had not
\* finished has, when it ends, sent a DONE or ERROR snapshot or the timeout.
C14_AdmittedStreamEndsTerminal ==
    (stream.pc = "ended" /\ stream.inflight) => (stream.terminal \/ stream.timeout)

\* C15 (as stated): for an identifier never handed out, the status query
\* answers NOT_FOUND, the result query answers nothing, and no snapshot of
\* a stream carries ERROR.
C15_UnknownIdNeverError ==
    pc[watched] = "idle" =>
        /\ get_job_status(watched).state = "NOT_FOUND"
        /\ get_job_result(watched) = "absent"
        /\ stream.last # "ERROR"

----------------------------------------------------------------------------
(* Properties of the task's clean-up and of concurrent jobs *)

\* Positions of the removal attempts in the history of job j.
Removals(j) == {i \in 1..Len(log[j]) : log[j][i] = RemoveEv}

Entry(store, k) == IF k \in DOMAIN store THEN <<store[k]>> ELSE <<>>

\* C17: a step of the task of one job (a status write, the result write, a
\* raise, the removal of its file) leaves the stored status and the stored
\* result of every other job as they were.
C17_JobsIndependent ==
    [][\A a \in JobIds :
          pc'[a] # pc[a] =>
             \A b \in JobIds \ {a} :
                /\ Entry(job_status, b)' = Entry(job_status, b)
                /\ Entry(job_storage, b)' = Entry(job_storage, b)]_vars

C17_Witness ==
    /\ pc["job-a"] = "finished"
    /\ pc["job-b"] = "failed"
    /\ Entry(job_status, "job-a") # <<>>
    /\ Entry(job_storage, "job-a") # <<>>
    /\ Entry(job_status, "job-b") # <<>>
    /\ job_status["job-a"].state = "DONE"
    /\ job_status["job-b"].state = "ERROR"

----------------------------------------------------------------------------
(* Properties of the audio and video stages *)

\* The try block of the audio stage the deployment runs.
StageChecks == IF backend = "inline" THEN SimpleAudioChecks ELSE AudioChecks

\* On file m the audio stage fails as a whole: a step of its try block
\* raises an exception that reaches the stage's except clause.
AudioFails(m) == m.has_audio /\ RunChecks(StageChecks, m, <<>>, 1).raised

Events(j) == {log[j][i] : i \in 1..Len(log[j])}

\* The audio stage of job j has been called and has returned.
AudioReturned(j) ==
    StageEv("audio") \in Events(j) /\ RaiseEv("audio") \notin Events(j)

VideoReturned(j) ==
    StageEv("video") \in Events(j) /\ RaiseEv("video") \notin Events(j)

\* C18 (as stated): once the audio stage or the video stage of a job has
\* failed as a whole, the job is never DONE and has no result stored.
C18_StageFailureFatal ==
    \A j \in JobIds :
        \/ (StageEv("audio") \in Events(j) /\ AudioFails(media[j]))
        \/ (StageEv("video") \in Events(j) /\ media[j].video_raises)
        => /\ get_job_status(j).state # "DONE"
           /\ get_job_result(j) = "absent"

\* C18 (amended): the audio stage and the video stage never raise into the
\* task: a stage that fails as a whole returns with one high-severity
\* audio_analysis_error / video_analysis_error issue in its list, the task
\* goes on, and a task that ends without ERROR has written DONE and stored
\* a result holding the two lists; ERROR is written only when metadata
\* extraction, the metrics or the result write raised.
C18_StageFailureRecorded ==
    \A j \in JobIds :
        backend \in Backends =>
            /\ RaiseEv("audio") \notin Events(j)
            /\ RaiseEv("video") \notin Events(j)
            /\ (AudioReturned(j) /\ AudioFails(media[j])) =>
                  Count(audio_issues[j],
                        LAMBDA e : e = Issue("audio_analysis_error", 0, "high")) = 1
            /\ (VideoReturned(j) /\ media[j].video_raises) =>
                  Count(video_issues[j],
                        LAMBDA e : e = Issue("video_analysis_error", 0, "high")) = 1
            /\ pc[j] \in {"cleanup", "finished"} =>
                  /\ get_job_status(j).state = "DONE"
                  /\ Entry(job_storage, j) # <<>>
                  /\ job_storage[j].audio_issues = audio_issues[j]
                  /\ job_storage[j].video_issues = video_issues[j]
            /\ get_job_status(j).state = "ERROR" =>
                  \E what \in {"metadata", "metrics", "result"} :
                      RaiseEv(what) \in Events(j)

C18_Witness ==
    \E j \in JobIds :
        /\ backend \in Backends
        /\ AudioFails(media[j])
        /\ media[j].video_raises
        /\ pc[j] = "finished"
        /\ get_job_status(j).state = "DONE"
        /\ Len(job_storage[j].audio_issues) = 1
        /\ Len(job_storage[j].video_issues) = 1

\* C19 (as stated): when the audio stage has failed as a whole and returned,
\* its list holds exactly one analysis-error issue, of severity high, and
\* the audio failure has not put the job into ERROR.
C19_AudioFailureOneHighIssue ==
    \A j \in JobIds :
        (StageEv("audio") \in Events(j) /\ AudioFails(media[j])) =>
            /\ AudioReturned(j)
            /\ Count(audio_issues[j],
                     LAMBDA e : /\ e.type \in {"audio_analysis_error", "analysis_error"}
                                /\ e.severity = "high") = 1
            /\ Count(audio_issues[j],
                     LAMBDA e : e.type \in {"audio_analysis_error", "analysis_error"}) = 1

\* C20 (as stated): when the audio stage has run on a file without an audio
\* stream, it has entered no audio check, its list is exactly one no_audio
\* issue of severity medium, and a stored result has an audio list of
\* length 1.
C20_NoAudioOneIssue ==
    \A j \in JobIds :
        (StageEv("audio") \in Events(j) /\ ~media[j].has_audio) =>
            /\ Entered(StageChecks, media[j]) = 0
            /\ audio_issues[j] = <<Issue("no_audio", 0, "medium")>>
            /\ Entry(job_storage, j) # <<>> => Len(job_storage[j].audio_issues) = 1

----------------------------------------------------------------------------
(* Properties of the analyzer's functions *)

\* "HH:MM:SS.mmm": two or more digits, two digits, two digits, three digits.
WellFormed(text) ==
    LET parts == Split(text, ":")
    IN /\ Len(parts) = 3
       /\ Len(parts[1]) >= 2
       /\ Len(parts[2]) = 2
       /\ Len(parts[3]) = 6
       /\ parts[3][3] = "."

\* C27: the string formatted from a time has the form HH:MM:SS.mmm, and
\* parsing it gives the time back to within one millisecond; for a time of
\* whole milliseconds it gives back exactly that time.
C27_TimestampRoundTrip ==
    (calc.fn = "timestamp" /\ calc.done) =>
        /\ WellFormed(calc.ret.text)
        /\ Abs(calc.ret.seconds - calc.arg.seconds) <= UnitsPerMs
        /\ calc.arg.seconds % UnitsPerMs = 0 => calc.ret.seconds = calc.arg.seconds

\* 100:59:59.9995 is written 100:59:60.000 and read back as 101:00:00.000.
C27_Witness ==
    /\ calc.fn = "timestamp"
    /\ calc.done
    /\ calc.arg.seconds = 100 * UnitsPerHour + 59 * UnitsPerMinute + 119999
    /\ calc.ret.text = <<"1", "0", "0", ":", "5", "9", ":", "6", "0", ".", "0", "0", "0">>
    /\ calc.ret.seconds = 101 * UnitsPerHour

----------------------------------------------------------------------------
(* Properties of the audio detectors *)

AudioDone(variant) ==
    calc.fn = "audio" /\ calc.done /\ calc.arg.variant = variant

\* The spans are the maximal runs of flagged samples: each lies within the
\* sequence, holds flagged samples only, has an unflagged sample (or the end
\* of the sequence) on either side; two spans share no sample; every
\* flagged sample is in a span.
MaximalRuns(flags, spans) ==
    LET n == Len(flags)
        In(i, span) == span[1] < i /\ i <= span[2]    \* sample i, 1-based
    IN /\ \A k \in 1..Len(spans) :
              /\ 0 <= spans[k][1] /\ spans[k][1] < spans[k][2] /\ spans[k][2] <= n
              /\ \A i \in 1..n : In(i, spans[k]) => flags[i]
              /\ spans[k][1] > 0 => ~flags[spans[k][1]]
              /\ spans[k][2] < n => ~flags[spans[k][2] + 1]
       /\ \A k, h \in 1..Len(spans) :
              k # h => ~\E i \in 1..n : In(i, spans[k]) /\ In(i, spans[h])
       /\ \A i \in 1..n : flags[i] => \E k \in 1..Len(spans) : In(i, spans[k])

\* The issues of one type, in the order of the list.
OfType(issues, type) == SelectSeq(issues, LAMBDA i : i.type = type)

\* C21: for every sample sequence the spans of the clipping detector and of
\* the silence detector are pairwise disjoint and are exactly the maximal
\* runs of samples that satisfy the detector's threshold test, and every
\* clipping span is reported with its first sample as start and its sample
\* count as duration.
C21_SpansAreMaximalRuns ==
    AudioDone("video_analyzer") =>
        LET a == calc.arg
            clipping == OfType(calc.ret.audio_issues, "clipping")
        IN /\ MaximalRuns(Clipped(a.samples), calc.ret.clipped)
           /\ MaximalRuns(Silent(a.samples), calc.ret.silent)
           /\ Len(clipping) = Len(calc.ret.clipped)
           /\ \A k \in 1..Len(clipping) :
                  /\ timestamp_to_seconds(clipping[k].timestamp)
                         = Seconds(calc.ret.clipped[k][1], a.sample_rate)
                  /\ clipping[k].duration
                         = Seconds(calc.ret.clipped[k][2] - calc.ret.clipped[k][1],
                                   a.sample_rate)

\* Two clipped runs, the second ending with the sequence, and a silent run
\* between them.
C21_Witness ==
    /\ AudioDone("video_analyzer")
    /\ calc.arg.samples = <<1000, 1000, 0, 0, 0, -990>>
    /\ calc.ret.clipped = << <<0, 2>>, <<5, 6>> >>
    /\ calc.ret.silent = << <<2, 5>> >>
    /\ Len(OfType(calc.ret.audio_issues, "clipping")) = 2

\* Audio with one run of samples pinned at full scale from 2.0 s to 3.0 s
\* and samples of ordinary level before and after it.
PinnedRun(a) ==
    /\ Len(a.samples) > 3 * a.sample_rate
    /\ \A i \in 1..Len(a.samples) :
           IF 2 * a.sample_rate < i /\ i <= 3 * a.sample_rate
           THEN a.samples[i] = 1000
           ELSE a.samples[i] = 10

\* C22: audio with one run pinned at amplitude 1.0 from 2.0 s to 3.0 s has
\* exactly one clipping issue, with timestamp 00:00:02.000, the run's sample
\* count over the sample rate as duration and severity high, and the
\* summary status is FAIL.
C22_PinnedRunOneClippingIssue ==
    (calc.fn = "audio" /\ calc.done /\ PinnedRun(calc.arg)) =>
        LET clipping == OfType(calc.ret.audio_issues, "clipping")
        IN /\ Len(clipping) = 1
           /\ clipping[1].timestamp
                  = <<"0","0",":","0","0",":","0","2",".","0","0","0">>
           /\ clipping[1].duration = Seconds(calc.arg.sample_rate, calc.arg.sample_rate)
           /\ clipping[1].severity = "high"
           /\ calc.ret.summary.status = "FAIL"

\* The same for VideoAnalyzer alone.
C22_VideoAnalyzerOnly == AudioDone("test_simple") \/ C22_PinnedRunOneClippingIssue

\* The maximal runs of flagged samples, as pairs of the 0-based index of
\* the first sample and the index after the last.
Runs(flags) ==
    { span \in (0..Len(flags)) \X (0..Len(flags)) :
        /\ span[1] < span[2]
        /\ \A i \in (span[1] + 1)..span[2] : flags[i]
        /\ span[1] > 0 => ~flags[span[1]]
        /\ span[2] < Len(flags) => ~flags[span[2] + 1] }

\* C23: the silence detector reports exactly one silence issue for each
\* maximal run of below-threshold samples that lasts at least 1.0 s and
\* none for a shorter run, low if the run is shorter than 3 s and medium
\* otherwise; a fully silent clip has exactly one silence issue, from 0
\* over the whole clip, no loudness issue and no high-severity issue.
C23_OneSilenceIssuePerLongRun ==
    AudioDone("video_analyzer") =>
        LET a == calc.arg
            silence == OfType(calc.ret.audio_issues, "silence")
            Lasts(span) == Seconds(span[2] - span[1], a.sample_rate)
            long == { span \in Runs(Silent(a.samples)) : Lasts(span) >= UnitsPerSecond }
            Reports(i, span) ==
                /\ timestamp_to_seconds(i.timestamp) = Seconds(span[1], a.sample_rate)
                /\ i.duration = Lasts(span)
                /\ i.severity = IF Lasts(span) < 3 * UnitsPerSecond
                                THEN "low" ELSE "medium"
        IN /\ Len(silence) = Cardinality(long)
           /\ \A span \in long :
                  Cardinality({ k \in 1..Len(silence) : Reports(silence[k], span) }) = 1
           /\ (\A i \in 1..Len(a.samples) : a.samples[i] = 0)
                  /\ Len(a.samples) >= a.sample_rate
              => /\ calc.ret.audio_issues
                       = <<IssueDict("silence", ZeroTimestamp,
                                     Seconds(Len(a.samples), a.sample_rate),
                                     IF Len(a.samples) < 3 * a.sample_rate
                                     THEN "low" ELSE "medium")>>
                 /\ calc.ret.summary.high_severity_issues = 0

\* The fully silent clip of ten seconds.
C23_Witness ==
    /\ AudioDone("video_analyzer")
    /\ calc.arg.samples = Const(0, LongClip) /\ calc.arg.sample_rate = 1
    /\ Len(calc.ret.audio_issues) = 1
    /\ calc.ret.audio_issues[1].duration = LongClip * UnitsPerSecond
    /\ calc.ret.audio_issues[1].severity = "medium"

\* A silent run of half a second, not reported, and one of a second.
C23_WitnessShortRun ==
    /\ AudioDone("video_analyzer")
    /\ calc.arg.samples = <<0, 10, 0, 0>> /\ calc.arg.sample_rate = 2
    /\ Len(OfType(calc.ret.audio_issues, "silence")) = 1

----------------------------------------------------------------------------
(* Properties of the frame loops *)

VideoDone == calc.fn = "video" /\ calc.done

\* The time of the k-th sample, the sample interval and the black-frame
\* threshold of the analyzer called.
Interval == IF calc.arg.variant = "video_analyzer"
            THEN sample_interval * UnitsPerSecond
            ELSE sample_interval_simple * UnitsPerSecond
SampleTime(k) == (k - 1) * Interval
Dark(frame) == frame # Unreadable
    /\ frame < (IF calc.arg.variant = "video_analyzer" THEN 8 ELSE 20)

\* Every sampled frame is decoded and is below the black-frame threshold.
AllDark ==
    /\ VideoDone /\ ~calc.arg.broken
    /\ calc.arg.frames # <<>>
    /\ \A k \in 1..Len(calc.arg.frames) : Dark(calc.arg.frames[k])

\* One black_frame issue for each sampled timestamp, in order.
OneBlackFramePerSample ==
    LET black == OfType(calc.ret.video_issues, "black_frame")
    IN /\ Len(black) = Len(calc.arg.frames)
       /\ \A k \in 1..Len(black) :
              timestamp_to_seconds(black[k].timestamp) = SampleTime(k)

\* C24 (as stated): when every sampled frame is below the black-frame
\* threshold, there is one black_frame issue per sampled timestamp and
\* video_issues is as long as the number of samples.
C24_AllDarkIssueCount ==
    AllDark => /\ OneBlackFramePerSample
               /\ Len(calc.ret.video_issues) = Len(calc.arg.frames)

\* C24 (amended): when every sampled frame is below the black-frame
\* threshold, there is one black_frame issue per sampled timestamp; the
\* other issues of video_issues are the frozen_frame issues of dark frames
\* that are similar to each other and the static issues, and video_issues is
\* as long as the number of samples exactly when there is none of them.
C24_AllDarkOneBlackFrameEach ==
    AllDark =>
        LET issues == calc.ret.video_issues
            Other(i) == i.type \in {"frozen_frame"} \cup StaticIssues
        IN /\ OneBlackFramePerSample
           /\ \A k \in 1..Len(issues) : issues[k].type = "black_frame" \/ Other(issues[k])
           /\ Len(issues) = Len(calc.arg.frames) <=> Count(issues, Other) = 0

\* Four seconds of one black frame: four black_frame issues and the
\* frozen_frame issue of the run.
C24_Witness ==
    /\ AllDark
    /\ calc.arg.variant = "video_analyzer"
    /\ calc.arg.frames = <<0, 0, 0, 0>>
    /\ Len(calc.ret.video_issues) = 5
    /\ Len(OfType(calc.ret.video_issues, "frozen_frame")) = 1

\* Dark frames that change: as many issues as samples.
C24_WitnessChanging ==
    /\ AllDark
    /\ calc.arg.frames = <<0, 5, 0>>
    /\ Len(calc.ret.video_issues) = 3

\* A changing video with one stretch of three seconds of one
\* picture in the middle: a frame, the samples that fall into the stretch,
\* all the same, and another frame, each change a change of luma.
FrozenMiddle ==
    LET frames == calc.arg.frames
        held == (3 * UnitsPerSecond) \div Interval + 1
    IN /\ VideoDone /\ ~calc.arg.broken
       /\ Len(frames) = held + 2
       /\ \A k \in 1..Len(frames) : frames[k] # Unreadable
       /\ \A k \in 2..held : frames[k + 1] = frames[k]
       /\ frames[1] # frames[2]
       /\ frames[held + 2] # frames[held + 1]

\* C25: three seconds of identical consecutive sampled frames in the middle
\* of an otherwise changing video give exactly one frozen_frame issue, of
\* duration 3.0 s and severity medium.
C25_FrozenMiddleOneIssue ==
    FrozenMiddle =>
        LET frozen == OfType(calc.ret.video_issues, "frozen_frame")
        IN /\ Len(frozen) = 1
           /\ frozen[1].duration = 3 * UnitsPerSecond
           /\ frozen[1].severity = "medium"

\* The same for VideoAnalyzer and frames whose changes it sees.
C25_VideoAnalyzerSeenChanges ==
    (FrozenMiddle /\ calc.arg.variant = "video_analyzer"
        /\ ~Similar(calc.arg.frames[1], calc.arg.frames[2])
        /\ ~Similar(calc.arg.frames[Len(calc.arg.frames)],
                    calc.arg.frames[Len(calc.arg.frames) - 1]))
    => C25_FrozenMiddleOneIssue

----------------------------------------------------------------------------
(* Properties of the summary *)

\* C26: for every combination of issue counts the summary status is FAIL
\* if there is at least one high-severity issue, otherwise WARNING if there
\* are more than 2 medium-severity issues or more than 5 issues in total,
\* otherwise PASS.
C26_CanonicalPolicy ==
    (calc.fn = "summary" /\ calc.done) =>
        LET a == calc.arg
        IN /\ calc.ret.total_issues = a.high + a.medium + a.low
           /\ calc.ret.high_severity_issues = a.high
           /\ calc.ret.status =
                  IF a.high > 0 THEN "FAIL"
                  ELSE IF a.medium > 2 \/ a.high + a.medium + a.low > 5
                  THEN "WARNING"
                  ELSE "PASS"

\* The same for the inline analyzer alone.
C26_InlineOnly == (calc.fn = "summary" /\ calc.arg.variant = "video_analyzer")
    \/ C26_CanonicalPolicy

----------------------------------------------------------------------------
(* Order of the issue lists *)

\* The list is in ascending order of its timestamps.
Ascends(issues) ==
    \A k \in 1..(Len(issues) - 1) :
        timestamp_to_seconds(issues[k].timestamp)
            <= timestamp_to_seconds(issues[k + 1].timestamp)

\* C28: the video_issues list of the result is in ascending order of
\* timestamp whatever was detected: frame issues, static whole-file issues,
\* per-frame errors, the pipeline-failure issue.
C28_VideoIssuesSorted == VideoDone => Ascends(calc.ret.video_issues)

\* The same for VideoAnalyzer alone.
C28_VideoAnalyzerSorted ==
    (VideoDone /\ calc.arg.variant = "video_analyzer") => Ascends(calc.ret.video_issues)

\* The audio_issues list is in ascending order in both analyzers.
C28_AudioIssuesSorted ==
    (calc.fn = "audio" /\ calc.done) => Ascends(calc.ret.audio_issues)

----------------------------------------------------------------------------
(* Frozen runs *)

\* The similarity test of the analyzer called.
Alike(a, b) ==
    IF calc.arg.variant = "video_analyzer" THEN Similar(a, b) ELSE Abs(a - b) < 2

\* The maximal runs of consecutive sampled frames each similar to the one
\* before it, as pairs of the positions of the first and the last frame.
FrozenRuns(frames) ==
    { run \in (1..Len(frames)) \X (1..Len(frames)) :
        /\ run[1] < run[2]
        /\ \A k \in run[1]..(run[2] - 1) : Alike(frames[k + 1], frames[k])
        /\ run[1] > 1 => ~Alike(frames[run[1]], frames[run[1] - 1])
        /\ run[2] < Len(frames) => ~Alike(frames[run[2] + 1], frames[run[2]]) }

\* Every sampled frame is decoded.
AllDecoded ==
    /\ VideoDone /\ ~calc.arg.broken
    /\ \A k \in 1..Len(calc.arg.frames) : calc.arg.frames[k] # Unreadable

\* C29: the video stage emits exactly one frozen_frame issue for each
\* maximal run of similar consecutive sampled frames that spans more than
\* 2 s, whether a dissimilar frame or the end of the sequence ends the run,
\* and none for a run of 2 s or less; the issue is high if the span exceeds
\* 5 s and medium otherwise.
C29_OneIssuePerFrozenRun ==
    AllDecoded =>
        LET frozen == OfType(calc.ret.video_issues, "frozen_frame")
            Span(run) == (run[2] - run[1]) * Interval
            long == { run \in FrozenRuns(calc.arg.frames) :
                        Span(run) > 2 * UnitsPerSecond }
            Reports(i, run) ==
                /\ timestamp_to_seconds(i.timestamp) = SampleTime(run[1])
                /\ i.duration = Span(run)
                /\ i.severity = IF Span(run) > 5 * UnitsPerSecond
                                THEN "high" ELSE "medium"
        IN /\ Len(frozen) = Cardinality(long)
           /\ \A run \in long :
                  Cardinality({ k \in 1..Len(frozen) : Reports(frozen[k], run) }) = 1

\* The same for VideoAnalyzer alone.
C29_VideoAnalyzerRuns ==
    (VideoDone /\ calc.arg.variant = "test_simple") \/ C29_OneIssuePerFrozenRun

\* VideoAnalyzer: a run of 3 s ended by a dissimilar frame, reported once, and
\* a run of 2 s ended by the end of the sequence, not reported.
C29_VideoAnalyzerTwoRuns ==
    /\ AllDecoded
    /\ calc.arg.variant = "video_analyzer"
    /\ calc.arg.frames = <<100, 100, 100, 100, 0, 0, 0>>
    /\ Len(OfType(calc.ret.video_issues, "frozen_frame")) = 1

----------------------------------------------------------------------------
(* Failure of one audio check *)

\* The four checks of VideoAnalyzer.analyze_audio.
SingleChecks == {"loudness", "clipping", "silence", "voice_glitch"}

\* Job j runs VideoAnalyzer, its audio stage has been called, and one of
\* the four checks raises on its file.
OneCheckRaises(j) ==
    /\ backend # "inline"
    /\ StageEv("audio") \in Events(j)
    /\ media[j].has_audio
    /\ media[j].raises \in SingleChecks

\* The other checks have contributed what they find in the file, and the
\* stage has not failed as a whole.
OthersContribute(j) ==
    /\ AudioReturned(j)
    /\ \A c \in media[j].finds \ {media[j].raises} :
           Count(audio_issues[j], LAMBDA e : e.type = c) = 1
    /\ Count(audio_issues[j], LAMBDA e : e.type = "audio_analysis_error") = 0

\* C30: when one audio check (loudness, clipping, silence, voice glitch)
\* raises, only that check is skipped: every other check still runs and
\* its issues are in the audio stage's output.
C30_OnlyFailingCheckSkipped ==
    \A j \in JobIds : OneCheckRaises(j) => OthersContribute(j)

\* The same for the two checks that catch their own exceptions.
C30_GuardedChecksSkipped ==
    \A j \in JobIds :
        (OneCheckRaises(j) /\ media[j].raises \in {"loudness", "voice_glitch"})
            => OthersContribute(j)

----------------------------------------------------------------------------
(* Frames that cannot be decoded *)

\* The issues of the list with this type and this sample time.
At(issues, type, time) ==
    SelectSeq(issues, LAMBDA i : i.type = type
                                 /\ timestamp_to_seconds(i.timestamp) = time)

\* C31: when retrieving the frame at a sample time raises, exactly one
\* frame_analysis_error issue of severity low is recorded for that sample
\* time and none for any other; the frames sampled later are still
\* analysed (a dark one has its black_frame issue), and the stage returns
\* its list without a video_analysis_error.
C31_FrameErrorRecoverable ==
    (VideoDone /\ ~calc.arg.broken) =>
        LET frames == calc.arg.frames
            issues == calc.ret.video_issues
            lost == { k \in 1..Len(frames) : frames[k] = Unreadable }
        IN /\ \A k \in lost :
                  LET errors == At(issues, "frame_analysis_error", SampleTime(k))
                  IN Len(errors) = 1 /\ errors[1].severity = "low"
           /\ Len(OfType(issues, "frame_analysis_error")) = Cardinality(lost)
           /\ \A k \in 1..Len(frames) :
                  Dark(frames[k]) => Len(At(issues, "black_frame", SampleTime(k))) = 1
           /\ OfType(issues, "video_analysis_error") = <<>>

\* A frame that cannot be decoded between two black frames.
C31_Witness ==
    /\ VideoDone
    /\ calc.arg.variant = "video_analyzer"
    /\ calc.arg.frames = <<0, Unreadable, 0>>
    /\ Len(calc.ret.video_issues) = 3
    /\ calc.ret.video_issues[2].type = "frame_analysis_error"
    /\ calc.ret.video_issues[3].type = "black_frame"

----------------------------------------------------------------------------
(* Static issues of the inline analyzer *)

\* The analysis of the inline analyzer ran on a clip that could be opened.
SimpleVideoDone ==
    VideoDone /\ calc.arg.variant = "test_simple" /\ ~calc.arg.broken

\* C32: when the width or height, or the frame rate, is below its
\* threshold, the low_resolution, respectively low_framerate, issue is in
\* video_issues exactly once, whatever the sampled frames are: also when no
\* frame is sampled and when no sampled frame can be decoded.
C32_StaticIssueOnce ==
    SimpleVideoDone =>
        \A type \in StaticIssues :
            Len(OfType(calc.ret.video_issues, type))
                = IF type \in calc.arg.static THEN 1 ELSE 0

\* The same when at least one sampled frame is decoded.
C32_StaticIssueOnceDecoded ==
    (SimpleVideoDone /\ \E k \in 1..Len(calc.arg.frames) :
                            calc.arg.frames[k] # Unreadable)
    => C32_StaticIssueOnce

----------------------------------------------------------------------------
(* Fatal failure in the inline deployment *)

\* The inline analysis of job j has been called on a file that cannot be
\* opened or decoded.
InlineAnalysisFailed(j) ==
    /\ backend = "inline"
    /\ media[j].video_raises
    /\ StageEv("video") \in Events(j)

\* C33: in the inline deployment a job whose analysis failed fatally is
\* never stored as DONE and never has a result stored; when its request is
\* finished it is stored with state ERROR.
C33_InlineFailureStoredAsError ==
    \A j \in JobIds :
        InlineAnalysisFailed(j) =>
            /\ get_job_status(j).state # "DONE"
            /\ get_job_result(j) = "absent"
            /\ pc[j] = "finished" => get_job_status(j).state = "ERROR"

\* What the inline deployment does instead: the finished job is DONE with a
\* result of two empty issue lists.
C33_InlineFailureStoredAsDone ==
    \A j \in JobIds :
        (InlineAnalysisFailed(j) /\ pc[j] = "finished") =>
            /\ get_job_status(j).state = "DONE"
            /\ Entry(job_storage, j) # <<>>
            /\ job_storage[j].audio_issues = <<>>
            /\ job_storage[j].video_issues = <<>>

----------------------------------------------------------------------------
(* The frozen spans of VideoAnalyzer *)

\* The mean squared difference of two frames of one luma value each, over
\* the integers, within the bound of PSNR > 45: 255 ^ 2 / mse > 10 ^ 4.5.
TrulySimilar(a, b) == 65025 * 100 > (a - b) * (a - b) * 3162278

\* VideoAnalyzer has analysed a clip.
AnalyzerDone ==
    VideoDone /\ calc.arg.variant = "video_analyzer" /\ ~calc.arg.broken

\* The positions of the decoded frames, in order.
DecodedAt(frames) == Ascending({ k \in 1..Len(frames) : frames[k] # Unreadable })

\* C34: a sampled frame counts toward a frozen span only if its true mean
\* squared difference from the previous decoded frame is within the bound
\* of PSNR > 45: in every span reported as frozen each decoded frame is
\* truly similar to the decoded frame before it, and frames that differ by
\* 16 at every pixel are in no such span.
C34_FrozenSpanTrulySimilar ==
    AnalyzerDone =>
        LET frames == calc.arg.frames
            at == DecodedAt(frames)
            frozen == OfType(calc.ret.video_issues, "frozen_frame")
            Within(i, k) ==
                /\ timestamp_to_seconds(i.timestamp) < SampleTime(k)
                /\ SampleTime(k) <= timestamp_to_seconds(i.timestamp) + i.duration
        IN \A n \in 1..Len(frozen) : \A d \in 2..Len(at) :
               Within(frozen[n], at[d]) =>
                   TrulySimilar(frames[at[d]], frames[at[d - 1]])

\* C35: every frozen_frame issue starts at the sample time of the first
\* frame of a run of decoded frames each similar to the decoded frame
\* before it, and its timestamp plus its duration is the sample time of the
\* last frame of that run, also when sample times in or before the run
\* could not be decoded.
C35_FrozenSpanMatchesRun ==
    AnalyzerDone =>
        LET frames == calc.arg.frames
            at == DecodedAt(frames)
            frozen == OfType(calc.ret.video_issues, "frozen_frame")
            Run(a, b) ==
                /\ a < b
                /\ \A d \in (a + 1)..b : Similar(frames[at[d]], frames[at[d - 1]])
                /\ a > 1 => ~Similar(frames[at[a]], frames[at[a - 1]])
                /\ b < Len(at) => ~Similar(frames[at[b + 1]], frames[at[b]])
        IN \A n \in 1..Len(frozen) :
               \E a, b \in 1..Len(at) :
                   /\ Run(a, b)
                   /\ timestamp_to_seconds(frozen[n].timestamp) = SampleTime(at[a])
                   /\ timestamp_to_seconds(frozen[n].timestamp) + frozen[n].duration
                          = SampleTime(at[b])

\* The same when every sampled frame is decoded.
C35_FrozenSpanMatchesRunDecoded ==
    (AnalyzerDone /\ AllDecoded) => C35_FrozenSpanMatchesRun

====
